---- MODULE Spec2Model ----
(***************************************************************************)
(* A model of the veloren network wire types (network/src/types.rs): the   *)
(* identifiers Pid and Sid, the Promises bitfield, the frame decoders      *)
(* Frame::gen_*, the protocol constants, and the channel handshake that    *)
(* uses them.                                                              *)
(*                                                                         *)
(* Representation.  A Rust unsigned integer of width w (u16, u32, u64,     *)
(* u128) is a sequence of w bits, least significant bit first, so that     *)
(* every value of the type exists in the model at its real width.  A u8    *)
(* (one byte of a buffer) is a number in 0..255.  A byte array [u8; n] is  *)
(* a sequence of n bytes.                                                  *)
(***************************************************************************)
EXTENDS Integers, Sequences, FiniteSets, TLC

VARIABLES
    \* ---- stream id allocation (one counter per peer of a channel)
    stream_ids,     \* [Peers -> Sid]: the id the peer's next local stream gets
    opened,         \* [Peers -> u64 + 1 bit]: streams the peer has opened so far
    last_sid,       \* [Peers -> Sid or NoSid]: the id the peer produced last
    steps,          \* [Peers -> Nat]: streams opened during this run
    sid_panicked    \* [Peers -> BOOLEAN]: the counter's += overflowed in a checked build

VARIABLES
    \* ---- frame codec: one frame from the sending channel to the receiving one
    feature_compression, \* BOOLEAN: the build has the "compression" feature
    tx_frame,       \* the frame the sender wrote, NoFrame before
    in_flight,      \* its bytes not yet delivered by the transport
    rx_buf,         \* bytes delivered to the receiver and not yet consumed
    rx_head,        \* the decoded fixed part of a Data or Raw frame whose payload is awaited
    rx_result,      \* what the receiver's last decode returned
    rx_consumed,    \* the bytes the receiver has taken out of rx_buf for this frame
    rx_errors       \* BOOLEAN: a decode of this frame has failed for lack of bytes

VARIABLES
    \* ---- promises of the streams an application is about to open
    promises,       \* [Streams -> u8]: the bits of each stream's Promises value
    flags_on        \* [Streams -> set of flag names]: the flags put in and not taken out

VARIABLES
    \* ---- the channels of one participant, each a connection to a remote peer
    ch_state,       \* [Chans -> channel state]
    ch_sent,        \* [Chans -> sequence of the kinds of the frames the channel sent]
    ch_error,       \* [Chans -> the error the channel failed with, "None" without]
    ch_handshake,   \* [Chans -> the bytes of the Handshake frame received, <<>> before]
    ch_init,        \* [Chans -> the bytes of the Init frame accepted, <<>> before]
    ch_pid,         \* [Chans -> the remote participant id bound, NoId before]
    ch_secret,      \* [Chans -> the remote secret bound, NoId before]
    ch_routed,      \* [Chans -> number of frames routed to the multiplexer]
    ch_violations,  \* [Chans -> the protocol violations logged: their number, and
                    \* the number of those logged while Established]
    known_secrets   \* the (participant id, secret) pairs the participant has recorded

VARIABLES
    \* ---- teardown of the channels of one participant; every channel has a
    \* send task and a receive task that run concurrently
    td_state,       \* [Chans -> channel state]
    td_pc,          \* [Chans -> [Tasks -> where the task is]]
    td_closing,     \* [Chans -> BOOLEAN]: a task has taken the channel's teardown
    td_events,      \* [Chans -> number of lost-channel events surfaced for the channel]
    td_traffic,     \* [Chans -> number of frames sent and received]
    td_live,        \* the channels the participant holds as live
    td_participant, \* "Alive" or "TornDown"
    td_teardowns    \* number of times the participant was torn down

VARIABLES
    \* ---- the receive path of the stream multiplexer of one established channel
    mx_streams,     \* [sid -> [prio, promises, next]]: the open streams
    mx_msgs,        \* [mid -> [sid, length, bytes]]: the reassembly buffers
    mx_held,        \* [sid -> [mid -> payload]]: completed messages held back for order
    mx_delivered,   \* [sid -> sequence of [mid, payload]]: released to the application
    mx_violations,  \* number of protocol violations logged
    mx_errors,      \* number of errors surfaced to the application
    mx_chan,        \* the channel's state
    mx_arrived,     \* the frames of MuxPool that have arrived, by index
    mx_completed    \* [mid, frame]: the messages completed, and by which frame, in order

VARIABLES
    \* ---- the send path of the multiplexer: one message being fragmented
    sn_msg,         \* [mid, sid, len]: the message submitted, NoFrame before
    sn_max,         \* the configured maximum payload of a Data frame, in bytes
    sn_offset,      \* bytes of the message framed so far
    sn_wire         \* the frames emitted: [kind, bytes, payload], bytes the fixed fields
                    \* as written, payload the number of payload bytes that follow

VARIABLES
    \* ---- delivery of the messages submitted on one stream of a channel
    dl_promises,    \* [wire, bits]: the promise byte of the stream's OpenStream frame
                    \* and the Promises decoded from it
    dl_stream,      \* the stream: "open" or "closed"
    dl_status,      \* [Msgs -> "unsent", "inflight", "damaged", "delivered", "discarded",
                    \* "lost", "cancelled"]
    dl_delivered,   \* [Msgs -> number of times the message reached the application]
    dl_reports,     \* the failures reported to the application
    dl_chan         \* the channel's state

VARIABLES
    \* ---- the priority scheduler of one channel
    sch_prio,       \* [SchedStreams -> Prio]: the priority each stream was opened with
    sch_queue,      \* [SchedStreams -> number of frames the stream has ready]
    sch_credit,     \* [SchedStreams -> frames the stream may still send in this round]
    sch_served      \* [SchedStreams -> BOOLEAN]: flips at every frame of the stream written

VARIABLES
    \* ---- frame kinds as the metrics number and name them (feature "metrics")
    mt_frame,       \* the frame asked about last, NoFrame before
    mt_int,         \* the u8 passed to or returned by the last call, NoInt before
    mt_name         \* the name the last call returned, NoName before

VARIABLES
    \* ---- participant ids as a test fixture makes them and a log shows them
    pf_offset,      \* the offset Pid::fake was last called with, NoInt without
    pf_pid,         \* the Pid made last, NoId before
    pf_text,        \* what formatting pf_pid gave: a sequence of characters
    pf_prev_pid,    \* the Pid formatted before pf_pid, NoId before
    pf_prev_text,   \* what formatting it gave
    pf_panicked     \* BOOLEAN: Pid::fake's assertion failed

VARIABLES
    \* ---- the game client: its entities and its tick
    cl_entities,    \* the entities of the client's world, in the order they were created:
                    \* records of the components Uid, Pos, Vel, Dir (<<x>> when
                    \* present, NoComp when absent)
    cl_player,      \* Client::player: <<>>, or <<e>> for the entity e of the world
    cl_time,        \* the time of the client's State
    cl_tick,        \* Client::tick, the number of ticks finished
    cl_last_ping,   \* the state's time when messages last arrived
    cl_events,      \* the frontend events the last tick returned
    cl_result       \* "Ok" or the error the last tick returned

VARIABLES
    \* ---- the game server's message system (message::Sys) and one client of it
    sv_client,      \* the entity's Client component: client_state, login_msg_sent,
                    \* last_ping, and outbox, the messages the last step sent to it
    sv_ecs,         \* the entity's other components: player, admin, controller, pos, vel,
                    \* ori (<<>> when absent, <<x>> when present), force_update, stats, uid
    sv_run,         \* the run of the system in progress: pc, cnt, msg (the kind of the
                    \* message handled last), network_err, disconnected (the label the
                    \* client's disconnection was counted under), the events emitted,
                    \* new_players, new_chat_msgs, the chunk requests counted in
                    \* network_metrics during the run, loads
                    \* (the requests to the character loader of the last step)
                    \* and calls (its writes to block_changes and skill sets)
    sv_time,        \* Time: the server's clock at the run
    sv_settings,    \* ServerSettings: max_view_distance (<<>> or <<max>>)
    sv_hist,        \* history: online, the ChatType::Online messages queued for the
                    \* client so far; pinged, whether a Ping was sent since last_ping
                    \* was set; late, whether two runs since then were more
                    \* than half the timeout apart
    sv_silent,      \* the client has stopped sending for good
    sv_gone         \* the server has removed the client

VARIABLES
    \* ---- the requirements of a character's abilities
    ab_energy,      \* the Energy of the StateUpdate: current and maximum
    ab_call         \* the last call of requirements_paid: the ability, the physics and
                    \* body it saw, the energy before it and what it returned

VARIABLES
    \* ---- a character in the ComboMelee state
    cm_data,        \* the state's Data: stage, num_stages, combo, stage_data, the energy
                    \* gains, timer and stage_section
    cm_attacking,   \* the entity's Attacking component, <<>> when absent
    cm_energy,      \* the entity's Energy: current and maximum
    cm_last         \* what the last call of behavior did: the section it found, the
                    \* combo, whether it made a hit attempt, the energy it granted

sidVars == <<stream_ids, opened, last_sid, steps, sid_panicked>>
codecVars ==
    <<tx_frame, in_flight, rx_buf, rx_head, rx_result, rx_consumed, rx_errors>>

promVars == <<promises, flags_on>>
chanVars ==
    <<ch_state, ch_sent, ch_error, ch_handshake, ch_init, ch_pid, ch_secret, ch_routed,
      ch_violations, known_secrets>>

tdVars ==
    <<td_state, td_pc, td_closing, td_events, td_traffic, td_live, td_participant,
      td_teardowns>>

muxVars ==
    <<mx_streams, mx_msgs, mx_held, mx_delivered, mx_violations, mx_errors, mx_chan,
      mx_arrived, mx_completed>>

sendVars == <<sn_msg, sn_max, sn_offset, sn_wire>>
dlVars == <<dl_promises, dl_stream, dl_status, dl_delivered, dl_reports, dl_chan>>
schVars == <<sch_prio, sch_queue, sch_credit, sch_served>>
metVars == <<mt_frame, mt_int, mt_name>>
pidVars == <<pf_offset, pf_pid, pf_text, pf_prev_pid, pf_prev_text, pf_panicked>>
clientVars ==
    <<cl_entities, cl_player, cl_time, cl_tick, cl_last_ping, cl_events, cl_result>>
serverVars ==
    <<sv_client, sv_ecs, sv_run, sv_time, sv_settings, sv_hist, sv_silent, sv_gone>>

abilityVars == <<ab_energy, ab_call>>

comboVars == <<cm_data, cm_attacking, cm_energy, cm_last>>

appVars == <<metVars, pidVars, clientVars, serverVars, abilityVars, comboVars>>

vars ==
    <<feature_compression, sidVars, codecVars, promVars, chanVars, tdVars, muxVars,
      sendVars, dlVars, schVars, appVars>>

\* what the steps of one part of the model leave alone
netVars == <<sendVars, dlVars, schVars, appVars>>
notSid == <<feature_compression, codecVars, promVars, chanVars, tdVars, muxVars, netVars>>
notCodec == <<feature_compression, sidVars, promVars, chanVars, tdVars, muxVars, netVars>>
notPromises == <<feature_compression, sidVars, codecVars, chanVars, tdVars, muxVars, netVars>>
notChan == <<feature_compression, sidVars, codecVars, promVars, tdVars, muxVars, netVars>>
notTeardown == <<feature_compression, sidVars, codecVars, promVars, chanVars, muxVars, netVars>>
notMux == <<feature_compression, sidVars, codecVars, promVars, chanVars, tdVars, netVars>>
wireVars == <<feature_compression, sidVars, codecVars, promVars, chanVars, tdVars, muxVars>>
notSend == <<wireVars, dlVars, schVars, appVars>>
notDelivery == <<wireVars, sendVars, schVars, appVars>>
notSched == <<wireVars, sendVars, dlVars, appVars>>
transportVars == <<wireVars, sendVars, dlVars, schVars>>
gameVars == <<abilityVars, comboVars>>
notMetrics == <<transportVars, pidVars, clientVars, serverVars, gameVars>>
notPid == <<transportVars, metVars, clientVars, serverVars, gameVars>>
notClient == <<transportVars, metVars, pidVars, serverVars, gameVars>>
notServer == <<transportVars, metVars, pidVars, clientVars, gameVars>>
notAbility == <<transportVars, metVars, pidVars, clientVars, serverVars, comboVars>>
notCombo == <<transportVars, metVars, pidVars, clientVars, serverVars, abilityVars>>

(***************************************************************************)
(* Fixed-width unsigned integers as bit sequences.                         *)
(***************************************************************************)
Bit == {0, 1}

\* the number n < 2^31 at width w, least significant bit first
ToBits(n, w) == [i \in 1..w |-> IF i <= 31 THEN (n \div (2 ^ (i - 1))) % 2 ELSE 0]

RECURSIVE FromBits(_)
\* the number a (short) bit sequence denotes
FromBits(bits) == IF bits = <<>> THEN 0 ELSE Head(bits) + 2 * FromBits(Tail(bits))

Zero(w) == [i \in 1..w |-> 0]
Ones(w) == [i \in 1..w |-> 1]
\* 2^k at width w (k < w)
Pow2(k, w) == [i \in 1..w |-> IF i = k + 1 THEN 1 ELSE 0]
\* unsigned division by two (u64::MAX / 2): shift right by one
Half(a) == [i \in 1..Len(a) |-> IF i < Len(a) THEN a[i + 1] ELSE 0]

RECURSIVE AddCarry(_, _, _)
\* a + b + c over equal-length bit sequences; one bit longer than a (the carry out)
AddCarry(a, b, c) ==
    IF a = <<>> THEN <<c>>
    ELSE LET s == Head(a) + Head(b) + c
         IN  <<s % 2>> \o AddCarry(Tail(a), Tail(b), s \div 2)

\* the mathematical sum truncated to the operands' width (wrapping_add)
WrappingAdd(a, b) == SubSeq(AddCarry(a, b, 0), 1, Len(a))
\* whether the sum does not fit the operands' width
AddOverflows(a, b) == AddCarry(a, b, 0)[Len(a) + 1] = 1
\* a - b modulo 2^w: a + ~b + 1
WrappingSub(a, b) ==
    SubSeq(AddCarry(a, [i \in 1..Len(b) |-> 1 - b[i]], 1), 1, Len(a))

RECURSIVE Less(_, _)
\* a < b as unsigned numbers of equal width
Less(a, b) ==
    IF a = <<>> THEN FALSE
    ELSE LET n == Len(a)
         IN  IF a[n] # b[n] THEN a[n] < b[n]
             ELSE Less(SubSeq(a, 1, n - 1), SubSeq(b, 1, n - 1))

LessEq(a, b) == a = b \/ Less(a, b)

(***************************************************************************)
(* Identifier widths.                                                      *)
(***************************************************************************)
U16_BITS == 16
U32_BITS == 32
U64_BITS == 64
U128_BITS == 128

\* Sid::new / From<u64> for Sid: a Sid is its internal u64
Sid_new(internal) == internal

\* the small number n as a u16, u32, u64, u128
U16(n) == ToBits(n, U16_BITS)
U32(n) == ToBits(n, U32_BITS)
U64(n) == ToBits(n, U64_BITS)
U128(n) == ToBits(n, U128_BITS)

STREAM_ID_OFFSET1 == Sid_new(U64(0))
STREAM_ID_OFFSET2 == Sid_new(Half(Ones(U64_BITS)))

(***************************************************************************)
(* Bytes and little-endian byte arrays.                                    *)
(***************************************************************************)
Byte == 0..255

\* the 8 bits of a u8, least significant first, and back
BitsOfByte(b) == ToBits(b, 8)
ByteOfBits(bits) == FromBits(bits)

\* buf[a..b] of the source: bytes a (counted from 0) up to and excluding b
Slice(buf, a, b) == SubSeq(buf, a + 1, b)

\* a mis-ordered reading: most significant byte first
from_be_bytes(bytes) ==
    [i \in 1..(8 * Len(bytes)) |->
        BitsOfByte(bytes[Len(bytes) - ((i - 1) \div 8)])[((i - 1) % 8) + 1]]

\* uN::from_le_bytes: byte k holds bits 8k .. 8k+7 of the number
from_le_bytes(bytes) ==
    [i \in 1..(8 * Len(bytes)) |-> BitsOfByte(bytes[((i - 1) \div 8) + 1])[((i - 1) % 8) + 1]]

\* mutant: the number's bytes, most significant byte first
MutToBeBytes(bits) ==
    [k \in 1..(Len(bits) \div 8) |->
        ByteOfBits(SubSeq(bits, Len(bits) - 8 * k + 1, Len(bits) - 8 * k + 8))]

\* uN::to_le_bytes: the number's bytes, least significant byte first
to_le_bytes(bits) ==
    [k \in 1..(Len(bits) \div 8) |-> ByteOfBits(SubSeq(bits, 8 * (k - 1) + 1, 8 * k))]

(***************************************************************************)
(* Promises: a bitflags struct over u8.                                    *)
(***************************************************************************)
\* mutant: ORDERED on the bit of CONSISTENCY
MutOrdered == 1 + 1
ORDERED == 1
CONSISTENCY == 2
\* mutant: GUARANTEED_DELIVERY on the bit of COMPRESSED
MutGuaranteedDelivery == 4 + 4
GUARANTEED_DELIVERY == 4
COMPRESSED == 8
\* mutant: ENCRYPTED given the bit of COMPRESSED
MutEncrypted == COMPRESSED
ENCRYPTED == 16

\* bitwise operations on u8
BitAnd(a, b) == FromBits([i \in 1..8 |-> BitsOfByte(a)[i] * BitsOfByte(b)[i]])
BitOr(a, b) ==
    FromBits([i \in 1..8 |-> IF BitsOfByte(a)[i] + BitsOfByte(b)[i] > 0 THEN 1 ELSE 0])
BitNot(a) == FromBits([i \in 1..8 |-> 1 - BitsOfByte(a)[i]])

\* the flags the build defines: COMPRESSED only with the "compression" feature
PromiseFlags(compression) ==
    {ORDERED, CONSISTENCY, GUARANTEED_DELIVERY, ENCRYPTED}
        \cup (IF compression THEN {COMPRESSED} ELSE {})

RECURSIVE OrAll(_)
OrAll(S) == IF S = {} THEN 0 ELSE LET f == CHOOSE x \in S : TRUE IN BitOr(f, OrAll(S \ {f}))

\* Promises::all().bits
Promises_all(compression) == OrAll(PromiseFlags(compression))
\* Promises::empty()
Promises_empty == 0
\* Promises::insert / the | operator
Promises_insert(self, other) == BitOr(self, other)
\* Promises::remove
Promises_remove(self, other) == BitAnd(self, BitNot(other))
\* Promises::contains
Promises_contains(self, other) == BitAnd(self, other) = other
\* Promises::from_bits_truncate: the bits that are no defined flag are dropped
Promises_from_bits_truncate(bits, compression) == BitAnd(bits, Promises_all(compression))
\* Promises::to_le_bytes: self.bits.to_le_bytes()
Promises_to_le_bytes(self) == <<self>>

(***************************************************************************)
(* Pid and Sid byte encodings, and the protocol constants.                 *)
(***************************************************************************)
Pid_to_le_bytes(self) == to_le_bytes(self)
Pid_from_le_bytes(bytes) == from_le_bytes(bytes)
Sid_to_le_bytes(self) == to_le_bytes(self)
\* mutant: the stream id read most significant byte first
MutSidFromBytes(bytes) == from_be_bytes(bytes)
Sid_from_le_bytes(bytes) == from_le_bytes(bytes)

\* mutant: the last letter of the token mistyped
MutMagicNumber == <<86, 69, 76, 79, 82, 69, 79>>
VELOREN_MAGIC_NUMBER == <<86, 69, 76, 79, 82, 69, 78>>
\* mutant: the minor version of an older release
MutNetworkVersion == <<U32(0), U32(4), U32(0)>>
VELOREN_NETWORK_VERSION == <<U32(0), U32(5), U32(0)>>

(***************************************************************************)
(* Frames and the decoders Frame::gen_*.  A frame is a record with its     *)
(* kind and the fields of the enum variant.                                *)
(***************************************************************************)
NoFrame == [kind |-> "None"]

\* mutant: the version numbers read most significant byte first
MutGenHandshake(buf) ==
    [kind |-> "Handshake",
     magic_number |-> Slice(buf, 0, 7),
     version |-> <<from_be_bytes(Slice(buf, 7, 11)),
                   from_be_bytes(Slice(buf, 11, 15)),
                   from_be_bytes(Slice(buf, 15, 19))>>]

gen_handshake(buf) ==
    [kind |-> "Handshake",
     magic_number |-> Slice(buf, 0, 7),
     version |-> <<from_le_bytes(Slice(buf, 7, 11)),
                   from_le_bytes(Slice(buf, 11, 15)),
                   from_le_bytes(Slice(buf, 15, 19))>>]

\* mutant: the two fields read from each other's bytes
MutGenInit(buf) ==
    [kind |-> "Init",
     pid |-> Pid_from_le_bytes(Slice(buf, 16, 32)),
     secret |-> from_le_bytes(Slice(buf, 0, 16))]

gen_init(buf) ==
    [kind |-> "Init",
     pid |-> Pid_from_le_bytes(Slice(buf, 0, 16)),
     secret |-> from_le_bytes(Slice(buf, 16, 32))]

\* mutant: the promise byte taken as it is (from_bits_unchecked)
MutGenOpenStream(buf, compression) ==
    [kind |-> "OpenStream",
     sid |-> Sid_from_le_bytes(Slice(buf, 0, 8)),
     prio |-> buf[8 + 1],
     promises |-> buf[9 + 1]]

gen_open_stream(buf, compression) ==
    [kind |-> "OpenStream",
     sid |-> Sid_from_le_bytes(Slice(buf, 0, 8)),
     prio |-> buf[8 + 1],
     promises |-> Promises_from_bits_truncate(buf[9 + 1], compression)]

\* mutant: the stream id read most significant byte first
MutGenCloseStream(buf) ==
    [kind |-> "CloseStream",
     sid |-> Sid_new(from_be_bytes(Slice(buf, 0, 8)))]

gen_close_stream(buf) ==
    [kind |-> "CloseStream",
     sid |-> Sid_from_le_bytes(Slice(buf, 0, 8))]

\* mutant: the declared length read from the stream id's bytes
MutGenDataHeaderLen(buf) ==
    [kind |-> "DataHeader",
     mid |-> from_le_bytes(Slice(buf, 0, 8)),
     sid |-> Sid_from_le_bytes(Slice(buf, 8, 16)),
     length |-> from_le_bytes(Slice(buf, 8, 16))]

\* mutant: message id and stream id read from each other's bytes
MutGenDataHeader(buf) ==
    [kind |-> "DataHeader",
     mid |-> from_le_bytes(Slice(buf, 8, 16)),
     sid |-> Sid_from_le_bytes(Slice(buf, 0, 8)),
     length |-> from_le_bytes(Slice(buf, 16, 24))]

gen_data_header(buf) ==
    [kind |-> "DataHeader",
     mid |-> from_le_bytes(Slice(buf, 0, 8)),
     sid |-> Sid_from_le_bytes(Slice(buf, 8, 16)),
     length |-> from_le_bytes(Slice(buf, 16, 24))]

\* mutant: the start offset read most significant byte first
MutGenDataStart(buf) ==
    [mid |-> from_le_bytes(Slice(buf, 0, 8)),
     start |-> from_be_bytes(Slice(buf, 8, 16)),
     length |-> from_le_bytes(Slice(buf, 16, 18))]

\* mutant: message id and start offset read from each other's bytes
MutGenData(buf) ==
    [mid |-> from_le_bytes(Slice(buf, 8, 16)),
     start |-> from_le_bytes(Slice(buf, 0, 8)),
     length |-> from_le_bytes(Slice(buf, 16, 18))]

\* (mid, start, length): the fixed part of a Data frame
gen_data(buf) ==
    [mid |-> from_le_bytes(Slice(buf, 0, 8)),
     start |-> from_le_bytes(Slice(buf, 8, 16)),
     length |-> from_le_bytes(Slice(buf, 16, 18))]

\* the length of a Raw frame's payload
gen_raw(buf) == from_le_bytes(Slice(buf, 0, 2))

\* the size of the byte array each decoder takes
\* mutant: the Handshake buffer one byte too long
MutHandshakeLen == 19 + 1
HANDSHAKE_LEN == 19
INIT_LEN == 32
OPEN_STREAM_LEN == 10
CLOSE_STREAM_LEN == 8
DATA_HEADER_LEN == 24
DATA_LEN == 18
RAW_LEN == 2

FrameKinds == {"Handshake", "Init", "OpenStream", "CloseStream", "DataHeader", "Data", "Raw"}
FixedKinds == {"Handshake", "Init", "OpenStream", "CloseStream", "DataHeader"}

\* the bytes a decoder of the kind needs
FixedLen(kind) ==
    CASE kind = "Handshake" -> HANDSHAKE_LEN
      [] kind = "Init" -> INIT_LEN
      [] kind = "OpenStream" -> OPEN_STREAM_LEN
      [] kind = "CloseStream" -> CLOSE_STREAM_LEN
      [] kind = "DataHeader" -> DATA_HEADER_LEN
      [] kind = "Data" -> DATA_LEN
      [] kind = "Raw" -> RAW_LEN

(***************************************************************************)
(* Writing a frame.  encode writes the layouts of the wire table: the      *)
(* fields in its order and widths, little-endian; a Data frame is the      *)
(* message id, the start offset and then the payload, a Raw frame the      *)
(* 2-byte length and then the payload.  The send path of the multiplexer   *)
(* writes the fixed part of a Data frame with the length of the payload    *)
(* as a u16 behind the start offset.                                       *)
(***************************************************************************)
\* the fixed fields of a Data frame that carries n payload bytes, as the send
\* path writes them
encode_data_fixed(mid, start, n) ==
    to_le_bytes(mid) \o to_le_bytes(start) \o to_le_bytes(U16(n))

\* encode(frame) -> bytes
encode(frame) ==
    CASE frame.kind = "Handshake" ->
            frame.magic_number \o to_le_bytes(frame.version[1])
                \o to_le_bytes(frame.version[2]) \o to_le_bytes(frame.version[3])
      [] frame.kind = "Init" -> Pid_to_le_bytes(frame.pid) \o to_le_bytes(frame.secret)
      [] frame.kind = "Shutdown" -> <<>>
      [] frame.kind = "OpenStream" ->
            Sid_to_le_bytes(frame.sid) \o <<frame.prio>> \o Promises_to_le_bytes(frame.promises)
      [] frame.kind = "CloseStream" -> Sid_to_le_bytes(frame.sid)
      [] frame.kind = "DataHeader" ->
            to_le_bytes(frame.mid) \o Sid_to_le_bytes(frame.sid) \o to_le_bytes(frame.length)
      [] frame.kind = "Data" ->
            to_le_bytes(frame.mid) \o to_le_bytes(frame.start) \o frame.data
      [] frame.kind = "Raw" -> to_le_bytes(U16(Len(frame.data))) \o frame.data

\* the bytes of a frame the send path has written: those of encode, and for a
\* Data frame the fixed part of the send path and then the payload
sent_bytes(frame) ==
    IF frame.kind = "Data"
    THEN encode_data_fixed(frame.mid, frame.start, Len(frame.data)) \o frame.data
    ELSE encode(frame)

\* decode(kind, bytes): the decoder of the kind on the first bytes of the
\* buffer, or a decode error when the buffer holds fewer bytes than it needs
DecodeError == [kind |-> "DecodeError"]

decode(kind, buf, compression) ==
    IF Len(buf) < FixedLen(kind) THEN DecodeError
    ELSE LET b == SubSeq(buf, 1, FixedLen(kind))
         IN  CASE kind = "Handshake" -> gen_handshake(b)
               [] kind = "Init" -> gen_init(b)
               [] kind = "OpenStream" -> gen_open_stream(b, compression)
               [] kind = "CloseStream" -> gen_close_stream(b)
               [] kind = "DataHeader" -> gen_data_header(b)
               [] kind = "Data" -> [kind |-> "DataHead"] @@ gen_data(b)
               [] kind = "Raw" -> [kind |-> "RawHead", length |-> gen_raw(b)]

(***************************************************************************)
(* The values frames are drawn from.                                       *)
(***************************************************************************)
\* a number whose bytes all differ: byte k is 2^(k % 8 + 1) - 1, less its
\* lowest bit from byte 8 on
Pattern(w) ==
    [i \in 1..w |->
        IF /\ (i - 1) % 8 <= ((i - 1) \div 8) % 8
           /\ ~((i - 1) >= 64 /\ (i - 1) % 8 = 0)
        THEN 1 ELSE 0]

SampleInts(w) == {Zero(w), Ones(w), Pattern(w)}

\* bound: the longest payload of a Data or Raw frame
MaxPayload == 2
SampleBytes == {0, 255}
\* the payloads of the frames written: every one of at most MaxPayload sample
\* bytes, and those that begin with the little-endian number of the bytes
\* that follow
Payloads ==
    UNION {[1..n -> SampleBytes] : n \in 0..MaxPayload}
    \cup UNION {{<<n, 0>> \o d : d \in [1..n -> SampleBytes]} : n \in 0..MaxPayload}

\* every subset of the build's promise flags
AllPromises(compression) == {OrAll(S) : S \in SUBSET PromiseFlags(compression)}

SampleMagic == {VELOREN_MAGIC_NUMBER, <<86, 69, 76, 79, 82, 69, 77>>, <<0, 1, 2, 3, 4, 5, 255>>}
SampleVersions ==
    {VELOREN_NETWORK_VERSION, <<U32(1), U32(0), U32(0)>>,
     <<Ones(U32_BITS), Pattern(U32_BITS), U32(256)>>}

SampleFrames(compression) ==
    {[kind |-> "Handshake", magic_number |-> m, version |-> v] :
        m \in SampleMagic, v \in SampleVersions}
    \cup {[kind |-> "Init", pid |-> p, secret |-> x] :
        p \in SampleInts(U128_BITS), x \in SampleInts(U128_BITS)}
    \cup {[kind |-> "OpenStream", sid |-> i, prio |-> pr, promises |-> pm] :
        i \in {Pattern(U64_BITS)}, pr \in {0, 255}, pm \in AllPromises(compression)}
    \cup {[kind |-> "CloseStream", sid |-> i] : i \in SampleInts(U64_BITS)}
    \cup {[kind |-> "DataHeader", mid |-> m, sid |-> i, length |-> l] :
        m \in SampleInts(U64_BITS), i \in SampleInts(U64_BITS), l \in SampleInts(U64_BITS)}
    \cup {[kind |-> "Data", mid |-> m, start |-> st, data |-> d] :
        m \in {Pattern(U64_BITS)}, st \in SampleInts(U64_BITS), d \in Payloads}
    \cup {[kind |-> "Raw", data |-> d] : d \in Payloads}

(***************************************************************************)
(* One frame over a byte stream: the sender writes it, the transport       *)
(* delivers its bytes in chunks, the receiver decodes what it has.         *)
(***************************************************************************)
NoResult == [kind |-> "NoResult"]

IdleCodec ==
    /\ tx_frame = NoFrame
    /\ in_flight = <<>>
    /\ rx_buf = <<>>
    /\ rx_head = NoFrame
    /\ rx_result = NoResult
    /\ rx_consumed = <<>>
    /\ rx_errors = FALSE

\* the sender writes one frame
WriteFrame(f) ==
    /\ tx_frame = NoFrame
    /\ tx_frame' = f
    /\ in_flight' = encode(f)
    /\ UNCHANGED <<rx_buf, rx_head, rx_result, rx_consumed, rx_errors, notCodec>>

\* the arrays of 10 bytes Frame::gen_open_stream is called with: some stream
\* ids, some priorities, every promise byte
OpenStreamBufs ==
    {sid \o <<prio, bits>> :
        sid \in {to_le_bytes(i) : i \in SampleInts(U64_BITS)}
                    \cup {<<1, 2, 3, 4, 5, 6, 7, 8>>},
        prio \in {0, 7, 255},
        bits \in Byte}

\* a caller hands gen_open_stream the buffer it has read
GenOpenStream(buf) ==
    /\ rx_consumed = <<>>
    /\ rx_consumed' = buf
    /\ rx_result' = gen_open_stream(buf, feature_compression)
    /\ UNCHANGED <<tx_frame, in_flight, rx_buf, rx_head, rx_errors, notCodec>>

\* the sizes of the chunks the transport delivers (the last one may be shorter)
ChunkSizes == {1, 3, 16}

\* the transport delivers the next bytes, k of them or all that are left
Deliver(n) ==
    LET k == IF n <= Len(in_flight) THEN n ELSE Len(in_flight)
    IN
    /\ in_flight # <<>>
    /\ rx_buf' = rx_buf \o SubSeq(in_flight, 1, k)
    /\ in_flight' = SubSeq(in_flight, k + 1, Len(in_flight))
    /\ UNCHANGED <<tx_frame, rx_head, rx_result, rx_consumed, rx_errors, notCodec>>

\* the frame has yet to be decoded
Awaiting == tx_frame # NoFrame /\ rx_head = NoFrame /\ rx_result \in {NoResult, DecodeError}

\* the receiver decodes with too few bytes buffered
DecodeShort ==
    /\ Awaiting
    /\ decode(tx_frame.kind, rx_buf, feature_compression) = DecodeError
    /\ rx_result' = DecodeError
    /\ rx_errors' = TRUE
    /\ UNCHANGED <<tx_frame, in_flight, rx_buf, rx_head, rx_consumed, notCodec>>

\* the receiver decodes a fixed-size frame
DecodeFixed ==
    /\ Awaiting
    /\ tx_frame.kind \in FixedKinds
    /\ decode(tx_frame.kind, rx_buf, feature_compression) # DecodeError
    /\ rx_result' = decode(tx_frame.kind, rx_buf, feature_compression)
    /\ rx_consumed' = rx_consumed \o SubSeq(rx_buf, 1, FixedLen(tx_frame.kind))
    /\ rx_buf' = SubSeq(rx_buf, FixedLen(tx_frame.kind) + 1, Len(rx_buf))
    /\ UNCHANGED <<tx_frame, in_flight, rx_head, rx_errors, notCodec>>

\* the receiver decodes the fixed part of a Data or Raw frame
DecodeHead ==
    /\ Awaiting
    /\ tx_frame.kind \in {"Data", "Raw"}
    /\ decode(tx_frame.kind, rx_buf, feature_compression) # DecodeError
    /\ rx_head' = decode(tx_frame.kind, rx_buf, feature_compression)
    /\ rx_consumed' = rx_consumed \o SubSeq(rx_buf, 1, FixedLen(tx_frame.kind))
    /\ rx_buf' = SubSeq(rx_buf, FixedLen(tx_frame.kind) + 1, Len(rx_buf))
    /\ UNCHANGED <<tx_frame, in_flight, rx_result, rx_errors, notCodec>>

\* the receiver takes the payload the fixed part announced, once it is buffered
ReadPayload ==
    /\ rx_head # NoFrame
    /\ LET n == FromBits(rx_head.length)
           data == SubSeq(rx_buf, 1, n)
       IN  /\ Len(rx_buf) >= n
           /\ rx_result' =
                IF rx_head.kind = "DataHead"
                THEN [kind |-> "Data", mid |-> rx_head.mid, start |-> rx_head.start,
                      data |-> data]
                ELSE [kind |-> "Raw", data |-> data]
           /\ rx_consumed' = rx_consumed \o data
           /\ rx_buf' = SubSeq(rx_buf, n + 1, Len(rx_buf))
    /\ rx_head' = NoFrame
    /\ UNCHANGED <<tx_frame, in_flight, rx_errors, notCodec>>

(***************************************************************************)
(* Building Promises values: an application puts flags into, and takes     *)
(* flags out of, the promises of the streams it is about to open.          *)
(***************************************************************************)
Streams == {1, 2}

FlagNames(compression) ==
    {"ORDERED", "CONSISTENCY", "GUARANTEED_DELIVERY", "ENCRYPTED"}
        \cup (IF compression THEN {"COMPRESSED"} ELSE {})

\* the constant of the Promises struct with the name
FlagBits(name) ==
    CASE name = "ORDERED" -> ORDERED
      [] name = "CONSISTENCY" -> CONSISTENCY
      [] name = "GUARANTEED_DELIVERY" -> GUARANTEED_DELIVERY
      [] name = "COMPRESSED" -> COMPRESSED
      [] name = "ENCRYPTED" -> ENCRYPTED

IdlePromises ==
    /\ promises = [s \in Streams |-> Promises_empty]
    /\ flags_on = [s \in Streams |-> {}]

\* promises.insert(Promises::NAME), promises |= Promises::NAME
PromisesInsert(s, name) ==
    /\ promises' = [promises EXCEPT ![s] = Promises_insert(@, FlagBits(name))]
    /\ flags_on' = [flags_on EXCEPT ![s] = @ \cup {name}]
    /\ UNCHANGED notPromises

\* promises.remove(Promises::NAME)
PromisesRemove(s, name) ==
    /\ promises' = [promises EXCEPT ![s] = Promises_remove(@, FlagBits(name))]
    /\ flags_on' = [flags_on EXCEPT ![s] = @ \ {name}]
    /\ UNCHANGED notPromises

(***************************************************************************)
(* The channel handshake.  Each channel of the participant goes            *)
(*   Unestablished -> AwaitingHandshake -> AwaitingInit -> Established     *)
(*     -> ShuttingDown -> Closed.                                          *)
(* The remote peer is the environment: it may send any frame at any time.  *)
(***************************************************************************)
Chans == {1, 2}
NoId == <<>>

\* the participant accepted the connection of channel 2 and opened that of channel 1
IsResponder(c) == c = 2

\* bounds: frames routed and violations logged per channel
MaxRouted == 2
MaxViolations == 1

\* the log of a channel without a violation, and the log after one more in
\* the state
NoViolation == [logged |-> 0, established |-> 0]
Logged(log, state) ==
    [logged |-> log.logged + 1,
     established |-> log.established + (IF state = "Established" THEN 1 ELSE 0)]

StreamFrameKinds == {"OpenStream", "CloseStream", "DataHeader", "Data", "Raw"}

\* the received Handshake matches the local protocol identity
HandshakeMatches(frame) ==
    /\ frame.magic_number = VELOREN_MAGIC_NUMBER
    /\ frame.version = VELOREN_NETWORK_VERSION

\* Handshake frames a remote peer may send: the matching one, one for each byte
\* of the magic token with only that byte changed, and versions that differ in
\* the major, minor or patch number or in the byte order of their numbers
WithByte(buf, i, b) == [buf EXCEPT ![i] = b]
HandshakeBufs ==
    LET good == <<86, 69, 76, 79, 82, 69, 78, 0, 0, 0, 0, 5, 0, 0, 0, 0, 0, 0, 0>>
    IN  {good}
        \cup {WithByte(good, i, good[i] + 1) : i \in 1..7}
        \cup {WithByte(good, 8, 1), WithByte(good, 11, 1), WithByte(good, 12, 4),
              WithByte(good, 16, 1), WithByte(WithByte(good, 12, 0), 15, 5),
              WithByte(WithByte(good, 8, 1), 12, 0)}

\* Init frames a remote peer may send: two participants, and the first of them
\* with another secret
InitBufs ==
    {encode([kind |-> "Init", pid |-> Pattern(U128_BITS), secret |-> Ones(U128_BITS)]),
     encode([kind |-> "Init", pid |-> Ones(U128_BITS), secret |-> Pattern(U128_BITS)]),
     encode([kind |-> "Init", pid |-> Pattern(U128_BITS), secret |-> U128(77)])}

\* the secrets known from earlier connections when the run starts: none, or the
\* first participant's
StartSecrets == {<<>>, <<[pid |-> Pattern(U128_BITS), secret |-> Ones(U128_BITS)]>>}

\* the secret recorded for the participant id, NoId without
KnownSecret(known, pid) ==
    IF \E i \in 1..Len(known) : known[i].pid = pid
    THEN known[CHOOSE i \in 1..Len(known) : known[i].pid = pid].secret
    ELSE NoId

IdleChan ==
    /\ ch_state = [c \in Chans |-> "Unestablished"]
    /\ ch_sent = [c \in Chans |-> <<>>]
    /\ ch_error = [c \in Chans |-> "None"]
    /\ ch_handshake = [c \in Chans |-> <<>>]
    /\ ch_init = [c \in Chans |-> <<>>]
    /\ ch_pid = [c \in Chans |-> NoId]
    /\ ch_secret = [c \in Chans |-> NoId]
    /\ ch_routed = [c \in Chans |-> 0]
    /\ ch_violations = [c \in Chans |-> NoViolation]
    /\ known_secrets = <<>>

InitChan ==
    /\ ch_state = [c \in Chans |-> "Unestablished"]
    /\ ch_sent = [c \in Chans |-> <<>>]
    /\ ch_error = [c \in Chans |-> "None"]
    /\ ch_handshake = [c \in Chans |-> <<>>]
    /\ ch_init = [c \in Chans |-> <<>>]
    /\ ch_pid = [c \in Chans |-> NoId]
    /\ ch_secret = [c \in Chans |-> NoId]
    /\ ch_routed = [c \in Chans |-> 0]
    /\ ch_violations = [c \in Chans |-> NoViolation]
    /\ known_secrets \in StartSecrets

\* the connection is up: the channel sends its Handshake at once
Connect(c) ==
    /\ ch_state[c] = "Unestablished"
    /\ ch_state' = [ch_state EXCEPT ![c] = "AwaitingHandshake"]
    /\ ch_sent' = [ch_sent EXCEPT ![c] = Append(@, "Handshake")]
    /\ UNCHANGED <<ch_error, ch_handshake, ch_init, ch_pid, ch_secret, ch_routed,
                   ch_violations, known_secrets, notChan>>

\* a protocol violation: the frame is dropped and logged; the channel stays
\* as it is
Violation(c, kind) ==
    /\ ch_violations[c].logged < MaxViolations
    /\ ch_violations' =
            [ch_violations EXCEPT ![c] = Logged(@, ch_state[c])]
    /\ UNCHANGED <<ch_state, ch_sent, ch_error, ch_handshake, ch_init, ch_pid, ch_secret,
                   ch_routed, known_secrets, notChan>>

\* a Handshake frame arrives while the channel awaits it and matches: the
\* channel goes to AwaitingInit, where it sends its Init
RecvHandshakeMatch(c, buf) ==
    /\ ch_state[c] = "AwaitingHandshake"
    /\ HandshakeMatches(gen_handshake(buf))
    /\ ch_handshake' = [ch_handshake EXCEPT ![c] = buf]
    /\ ch_state' = [ch_state EXCEPT ![c] = "AwaitingInit"]
    /\ ch_sent' = [ch_sent EXCEPT ![c] = Append(@, "Init")]
    /\ UNCHANGED <<ch_error, ch_init, ch_pid, ch_secret, ch_routed, ch_violations,
                   known_secrets, notChan>>

\* a Handshake frame arrives while the channel awaits it and does not match:
\* the channel fails with ProtocolMismatch and is Closed
RecvHandshakeMismatch(c, buf) ==
    /\ ch_state[c] = "AwaitingHandshake"
    /\ ~HandshakeMatches(gen_handshake(buf))
    /\ ch_handshake' = [ch_handshake EXCEPT ![c] = buf]
    /\ ch_state' = [ch_state EXCEPT ![c] = "Closed"]
    /\ ch_error' = [ch_error EXCEPT ![c] = "ProtocolMismatch"]
    /\ UNCHANGED <<ch_sent, ch_init, ch_pid, ch_secret, ch_routed, ch_violations,
                   known_secrets, notChan>>

\* an Init frame arrives in AwaitingInit: the channel is bound to the remote
\* participant and Established.  The responder records the secret of a
\* participant it sees for the first time.
RecvInit(c, buf) ==
    LET frame == gen_init(buf)
        known == KnownSecret(known_secrets, frame.pid)
    IN
    /\ ch_state[c] = "AwaitingInit"
    /\ ~IsResponder(c) \/ known \in {NoId, frame.secret}
    /\ ch_init' = [ch_init EXCEPT ![c] = buf]
    /\ ch_pid' = [ch_pid EXCEPT ![c] = frame.pid]
    /\ ch_secret' = [ch_secret EXCEPT ![c] = frame.secret]
    /\ ch_state' = [ch_state EXCEPT ![c] = "Established"]
    /\ known_secrets' =
            IF IsResponder(c) /\ known = NoId
            THEN Append(known_secrets, [pid |-> frame.pid, secret |-> frame.secret])
            ELSE known_secrets
    /\ UNCHANGED <<ch_sent, ch_error, ch_handshake, ch_routed, ch_violations, notChan>>

\* an Init frame arrives at the responder with another secret than the one
\* known for its participant id: the channel attempt fails
RecvInitAuthFailure(c, buf) ==
    LET frame == gen_init(buf)
        known == KnownSecret(known_secrets, frame.pid)
    IN
    /\ ch_state[c] = "AwaitingInit"
    /\ IsResponder(c)
    /\ known \notin {NoId, frame.secret}
    /\ ch_state' = [ch_state EXCEPT ![c] = "Closed"]
    /\ ch_error' = [ch_error EXCEPT ![c] = "AuthenticationFailure"]
    /\ UNCHANGED <<ch_sent, ch_handshake, ch_init, ch_pid, ch_secret, ch_routed,
                   ch_violations, known_secrets, notChan>>

\* a Handshake or an Init frame arrives when the channel does not await it
RecvUnexpected(c, kind) ==
    /\ \/ kind = "Handshake" /\ ch_state[c] \in {"AwaitingInit", "Established", "ShuttingDown"}
       \/ kind = "Init" /\ ch_state[c] \in {"AwaitingHandshake", "Established", "ShuttingDown"}
    /\ Violation(c, kind)

\* an OpenStream, CloseStream, DataHeader, Data or Raw frame arrives on an
\* Established channel: it is routed to the multiplexer
RecvStreamFrame(c, kind) ==
    /\ ch_state[c] = "Established"
    /\ ch_routed[c] < MaxRouted
    /\ ch_routed' = [ch_routed EXCEPT ![c] = @ + 1]
    /\ UNCHANGED <<ch_state, ch_sent, ch_error, ch_handshake, ch_init, ch_pid, ch_secret,
                   ch_violations, known_secrets, notChan>>

\* the same on a channel that is not Established
RecvStreamFrameEarly(c, kind) ==
    /\ ch_state[c] \in {"AwaitingHandshake", "AwaitingInit", "ShuttingDown"}
    /\ Violation(c, kind)

\* a Shutdown frame arrives: graceful teardown starts
RecvShutdown(c) ==
    /\ ch_state[c] = "Established"
    /\ ch_state' = [ch_state EXCEPT ![c] = "ShuttingDown"]
    /\ UNCHANGED <<ch_sent, ch_error, ch_handshake, ch_init, ch_pid, ch_secret, ch_routed,
                   ch_violations, known_secrets, notChan>>

\* the graceful teardown is through
FinishShutdown(c) ==
    /\ ch_state[c] = "ShuttingDown"
    /\ ch_state' = [ch_state EXCEPT ![c] = "Closed"]
    /\ UNCHANGED <<ch_sent, ch_error, ch_handshake, ch_init, ch_pid, ch_secret, ch_routed,
                   ch_violations, known_secrets, notChan>>

\* the underlying connection fails
IoFailure(c) ==
    /\ ch_state[c] \notin {"Unestablished", "Closed"}
    /\ ch_state' = [ch_state EXCEPT ![c] = "Closed"]
    /\ ch_error' = [ch_error EXCEPT ![c] = "ChannelLost"]
    /\ UNCHANGED <<ch_sent, ch_handshake, ch_init, ch_pid, ch_secret, ch_routed,
                   ch_violations, known_secrets, notChan>>

(***************************************************************************)
(* Stream id allocation.  The connection initiator (peer 1) counts up from *)
(* STREAM_ID_OFFSET1, the responder (peer 2) from STREAM_ID_OFFSET2; each  *)
(* locally opened stream takes the counter's value and advances it by      *)
(* Sid::from(1) with Sid's AddAssign.                                      *)
(***************************************************************************)
Peers == {1, 2}
Other(p) == 3 - p
offset_sid(p) == IF p = 1 THEN STREAM_ID_OFFSET1 ELSE STREAM_ID_OFFSET2

NoSid == <<>>

\* impl AddAssign for Sid: self.internal + other.internal.  An overflowing
\* sum panics in a build with overflow checks and wraps in one without.
Sid_add_overflows(self, other) == AddOverflows(self, other)
Sid_add_assign(self, other) == WrappingAdd(self, other)

\* bounds of the exploration
Margin == 2
MaxOpen == 3

\* counts of opened streams are kept one bit wider than a Sid, so that the
\* count 2^64 is representable
CNT_BITS == U64_BITS + 1
Cnt(n) == ToBits(n, CNT_BITS)
CntOfSid(s) == s \o <<0>>
TwoPow63 == Pow2(63, CNT_BITS)

\* The counts a run starts from: a peer that has opened k streams, k in
\* 0..Margin, or 2^63 - k streams, k in 1..Margin.  2^63 steps cannot be
\* enumerated one by one, so runs start at the counts around the two ends of
\* the range and open up to MaxOpen streams from there.
StartCounts ==
    {Cnt(k) : k \in 0..Margin} \cup {WrappingSub(TwoPow63, Cnt(k)) : k \in 1..Margin}

\* the counter of a peer that opened n streams without overflowing
CounterAfter(p, n) == WrappingAdd(offset_sid(p), SubSeq(n, 1, U64_BITS))

IdleSid ==
    /\ opened = [p \in Peers |-> Cnt(0)]
    /\ stream_ids = [p \in Peers |-> offset_sid(p)]
    /\ last_sid = [p \in Peers |-> NoSid]
    /\ steps = [p \in Peers |-> 0]
    /\ sid_panicked = [p \in Peers |-> FALSE]

InitSid ==
    /\ opened \in [Peers -> StartCounts]
    /\ stream_ids = [p \in Peers |-> CounterAfter(p, opened[p])]
    /\ last_sid = [p \in Peers |-> NoSid]
    /\ steps = [p \in Peers |-> 0]
    /\ sid_panicked = [p \in Peers |-> FALSE]

\* a peer opens a stream locally: let sid = stream_ids; stream_ids += Sid::from(1)
OpenStreamLocal(p) ==
    /\ steps[p] < MaxOpen
    /\ ~sid_panicked[p]
    /\ ~Sid_add_overflows(stream_ids[p], Sid_new(U64(1)))
    /\ last_sid' = [last_sid EXCEPT ![p] = stream_ids[p]]
    /\ stream_ids' = [stream_ids EXCEPT ![p] = Sid_add_assign(@, Sid_new(U64(1)))]
    /\ opened' = [opened EXCEPT ![p] = WrappingAdd(@, Cnt(1))]
    /\ steps' = [steps EXCEPT ![p] = @ + 1]
    /\ UNCHANGED <<sid_panicked, notSid>>

\* the same on a counter at u64::MAX, in a build with overflow checks: the
\* stream got its id and the += panics
OpenStreamOverflowPanic(p) ==
    /\ steps[p] < MaxOpen
    /\ ~sid_panicked[p]
    /\ Sid_add_overflows(stream_ids[p], Sid_new(U64(1)))
    /\ last_sid' = [last_sid EXCEPT ![p] = stream_ids[p]]
    /\ opened' = [opened EXCEPT ![p] = WrappingAdd(@, Cnt(1))]
    /\ steps' = [steps EXCEPT ![p] = @ + 1]
    /\ sid_panicked' = [sid_panicked EXCEPT ![p] = TRUE]
    /\ UNCHANGED <<stream_ids, notSid>>

\* the same in a build without overflow checks: the counter wraps to 0
OpenStreamOverflowWrap(p) ==
    /\ steps[p] < MaxOpen
    /\ ~sid_panicked[p]
    /\ Sid_add_overflows(stream_ids[p], Sid_new(U64(1)))
    /\ last_sid' = [last_sid EXCEPT ![p] = stream_ids[p]]
    /\ stream_ids' = [stream_ids EXCEPT ![p] = Sid_add_assign(@, Sid_new(U64(1)))]
    /\ opened' = [opened EXCEPT ![p] = WrappingAdd(@, Cnt(1))]
    /\ steps' = [steps EXCEPT ![p] = @ + 1]
    /\ UNCHANGED <<sid_panicked, notSid>>

(***************************************************************************)
(* Channel and participant teardown.  A channel's send task and receive    *)
(* task run concurrently; either may meet an I/O failure, and the receive  *)
(* task may be told to shut down.  Whichever task comes to close the       *)
(* channel first takes the teardown (a test-and-set of td_closing), marks  *)
(* the channel Closed and surfaces the lost-channel event, detaches the    *)
(* channel from the participant and, when it was the last live channel,    *)
(* tears the participant down.  The other task finds the teardown taken.   *)
(***************************************************************************)
Tasks == {"send", "recv"}

\* bound of the exploration: frames a channel sends and receives
MaxTraffic == 2

\* the test-and-set that guards the teardown: TRUE for the caller that takes it
MutTakesTeardown(closing) == TRUE
TakesTeardown(closing) == ~closing

\* detaching channel c leaves the participant without a live channel
MutIsLastChannel(live, c) == c \in live
IsLastChannel(live, c) == live \ {c} = {}

IdleTeardown ==
    /\ td_state = [c \in Chans |-> "Unestablished"]
    /\ td_pc = [c \in Chans |-> [t \in Tasks |-> "done"]]
    /\ td_closing = [c \in Chans |-> FALSE]
    /\ td_events = [c \in Chans |-> 0]
    /\ td_traffic = [c \in Chans |-> 0]
    /\ td_live = {}
    /\ td_participant = "Alive"
    /\ td_teardowns = 0

\* a participant with its channels connected, handshaking or established
InitTeardown ==
    /\ td_state \in [Chans -> {"AwaitingHandshake", "Established"}]
    /\ td_pc = [c \in Chans |-> [t \in Tasks |-> "run"]]
    /\ td_closing = [c \in Chans |-> FALSE]
    /\ td_events = [c \in Chans |-> 0]
    /\ td_traffic = [c \in Chans |-> 0]
    /\ td_live = Chans
    /\ td_participant = "Alive"
    /\ td_teardowns = 0

\* the send task writes a frame, the receive task reads a stream frame
TdTransfer(c, t) ==
    /\ td_pc[c][t] = "run"
    /\ td_state[c] = "Established"
    /\ td_traffic[c] < MaxTraffic
    /\ td_traffic' = [td_traffic EXCEPT ![c] = @ + 1]
    /\ UNCHANGED <<td_state, td_pc, td_closing, td_events, td_live, td_participant,
                   td_teardowns, notTeardown>>

\* the receive task reads a Shutdown frame: graceful teardown begins
TdRecvShutdown(c) ==
    /\ td_pc[c]["recv"] = "run"
    /\ td_state[c] = "Established"
    /\ td_state' = [td_state EXCEPT ![c] = "ShuttingDown"]
    /\ UNCHANGED <<td_pc, td_closing, td_events, td_traffic, td_live, td_participant,
                   td_teardowns, notTeardown>>

\* the receive task has flushed what it could and goes on to close the channel
TdFlushed(c) ==
    /\ td_pc[c]["recv"] = "run"
    /\ td_state[c] = "ShuttingDown"
    /\ td_pc' = [td_pc EXCEPT ![c]["recv"] = "close"]
    /\ UNCHANGED <<td_state, td_closing, td_events, td_traffic, td_live,
                   td_participant, td_teardowns, notTeardown>>

\* a read or write of the task fails (in any state, also on a connection the
\* other task has closed): the task goes on to close the channel
TdIoFailure(c, t) ==
    /\ td_pc[c][t] = "run"
    /\ td_pc' = [td_pc EXCEPT ![c][t] = "close"]
    /\ UNCHANGED <<td_state, td_closing, td_events, td_traffic, td_live,
                   td_participant, td_teardowns, notTeardown>>

\* close(): test-and-set of the teardown; the task that takes it goes on, the
\* other is done
TdClose(c, t) ==
    /\ td_pc[c][t] = "close"
    /\ IF TakesTeardown(td_closing[c])
       THEN /\ td_closing' = [td_closing EXCEPT ![c] = TRUE]
            /\ td_pc' = [td_pc EXCEPT ![c][t] = "surface"]
       ELSE /\ td_pc' = [td_pc EXCEPT ![c][t] = "done"]
            /\ UNCHANGED td_closing
    /\ UNCHANGED <<td_state, td_events, td_traffic, td_live, td_participant,
                   td_teardowns, notTeardown>>

\* the task that took the teardown marks the channel Closed and surfaces the
\* lost-channel event to the participant
TdSurface(c, t) ==
    /\ td_pc[c][t] = "surface"
    /\ td_state' = [td_state EXCEPT ![c] = "Closed"]
    /\ td_events' = [td_events EXCEPT ![c] = @ + 1]
    /\ td_pc' = [td_pc EXCEPT ![c][t] = "detach"]
    /\ UNCHANGED <<td_closing, td_traffic, td_live, td_participant, td_teardowns,
                   notTeardown>>

\* under the participant's lock: remove the channel from the live channels and
\* see whether it was the last one
TdDetach(c, t) ==
    /\ td_pc[c][t] = "detach"
    /\ td_live' = td_live \ {c}
    /\ td_pc' = [td_pc EXCEPT ![c][t] =
                    IF IsLastChannel(td_live, c) THEN "teardown" ELSE "done"]
    /\ UNCHANGED <<td_state, td_closing, td_events, td_traffic, td_participant,
                   td_teardowns, notTeardown>>

\* the task that detached the last live channel tears the participant down
TdParticipantTeardown(c, t) ==
    /\ td_pc[c][t] = "teardown"
    /\ td_participant' = "TornDown"
    /\ td_teardowns' = td_teardowns + 1
    /\ td_pc' = [td_pc EXCEPT ![c][t] = "done"]
    /\ UNCHANGED <<td_state, td_closing, td_events, td_traffic, td_live, notTeardown>>

(***************************************************************************)
(* The receive path of the stream multiplexer.  Frames arrive as bytes and *)
(* are decoded by the gen_* functions.  OpenStream and CloseStream add and *)
(* remove stream entries; a DataHeader opens a reassembly buffer for its   *)
(* message id; a Data frame is applied to the buffer of its message id by  *)
(* offset; a message whose bytes are all there is released to the          *)
(* application, in message-id order on a stream opened with ORDERED.       *)
(***************************************************************************)
\* f with key k set to v, and f without the keys in K
Put(f, k, v) == [x \in DOMAIN f \cup {k} |-> IF x = k THEN v ELSE f[x]]
Drop(f, K) == [x \in DOMAIN f \ K |-> f[x]]

\* the id of the first message of a stream
FirstMid == U64(1)

\* protocol violations a channel tolerates before it is closed
ViolationLimit == 3

\* the streams and the messages of the frames that arrive
SidA == Sid_new(U64(3))
SidB == Sid_new(Pattern(U64_BITS))
MidB == U64(7)
MsgB == <<10, 20, 30>>

\* a frame on the wire; it arrives after the frame of index `after` (0: any time)
PoolFrame(frame, after) ==
    [kind |-> frame.kind, bytes |-> sent_bytes(frame), after |-> after]

\* The frames that arrive, in any order that keeps a stream's OpenStream before
\* its DataHeaders and a message's DataHeader before its Data frames.  Stream
\* A is opened with promise byte 1 (ORDERED) and carries the one-byte messages
\* 1, 2, 3; stream B is opened with no promise and carries message 7 of three
\* bytes in two fragments.  Frames 12 and 13 are fragments of message 7 that
\* reach beyond its declared length; frame 14 closes stream A.
MuxPool ==
    << PoolFrame([kind |-> "OpenStream", sid |-> SidA, prio |-> 1, promises |-> 1], 0),
       PoolFrame([kind |-> "OpenStream", sid |-> SidB, prio |-> 2, promises |-> 0], 0),
       PoolFrame([kind |-> "DataHeader", mid |-> U64(1), sid |-> SidA, length |-> U64(1)], 1),
       PoolFrame([kind |-> "Data", mid |-> U64(1), start |-> U64(0), data |-> <<11>>], 3),
       PoolFrame([kind |-> "DataHeader", mid |-> U64(2), sid |-> SidA, length |-> U64(1)], 1),
       PoolFrame([kind |-> "Data", mid |-> U64(2), start |-> U64(0), data |-> <<12>>], 5),
       PoolFrame([kind |-> "DataHeader", mid |-> U64(3), sid |-> SidA, length |-> U64(1)], 1),
       PoolFrame([kind |-> "Data", mid |-> U64(3), start |-> U64(0), data |-> <<13>>], 7),
       PoolFrame([kind |-> "DataHeader", mid |-> MidB, sid |-> SidB, length |-> U64(3)], 2),
       PoolFrame([kind |-> "Data", mid |-> MidB, start |-> U64(0), data |-> <<10>>], 9),
       PoolFrame([kind |-> "Data", mid |-> MidB, start |-> U64(1), data |-> <<20, 30>>], 9),
       PoolFrame([kind |-> "Data", mid |-> MidB, start |-> U64(2), data |-> <<98, 99>>], 9),
       PoolFrame([kind |-> "Data", mid |-> MidB, start |-> Ones(U64_BITS), data |-> <<97>>], 9),
       PoolFrame([kind |-> "CloseStream", sid |-> SidA], 1) >>

IdleMux ==
    /\ mx_streams = <<>>
    /\ mx_msgs = <<>>
    /\ mx_held = <<>>
    /\ mx_delivered = <<>>
    /\ mx_violations = 0
    /\ mx_errors = 0
    /\ mx_chan = "Unestablished"
    /\ mx_arrived = {}
    /\ mx_completed = <<>>

\* an established channel with no stream open
InitMux ==
    /\ mx_streams = <<>>
    /\ mx_msgs = <<>>
    /\ mx_held = <<>>
    /\ mx_delivered = <<>>
    /\ mx_violations = 0
    /\ mx_errors = 0
    /\ mx_chan = "Established"
    /\ mx_arrived = {}
    /\ mx_completed = <<>>

\* frame i of the pool, of the given kind, arrives on the established channel
Arrives(i, kind) ==
    /\ mx_chan = "Established"
    /\ i \notin mx_arrived
    /\ MuxPool[i].kind = kind
    /\ MuxPool[i].after = 0 \/ MuxPool[i].after \in mx_arrived
    /\ mx_arrived' = mx_arrived \cup {i}

\* the frame is dropped and the violation logged; the channel is closed, and
\* the error surfaced, only when more violations than the limit have been logged
LogViolation ==
    /\ mx_violations' = mx_violations + 1
    /\ IF mx_violations + 1 > ViolationLimit
       THEN mx_chan' = "Closed" /\ mx_errors' = mx_errors + 1
       ELSE UNCHANGED <<mx_chan, mx_errors>>

\* release from `held` every message whose turn has come, lowest id first
RECURSIVE ReleaseInOrder(_, _, _)
ReleaseInOrder(held, next, out) ==
    IF next \in DOMAIN held
    THEN ReleaseInOrder(Drop(held, {next}), WrappingAdd(next, U64(1)),
                        Append(out, [mid |-> next, payload |-> held[next]]))
    ELSE [held |-> held, next |-> next, out |-> out]

\* a message of stream sid is complete: release it at once, or in its turn
\* when the stream was opened with ORDERED
Complete(sid, mid, payload, i) ==
    /\ mx_completed' = Append(mx_completed, [mid |-> mid, frame |-> i])
    /\ IF Promises_contains(mx_streams[sid].promises, ORDERED)
       THEN LET r == ReleaseInOrder(Put(mx_held[sid], mid, payload),
                                    mx_streams[sid].next, mx_delivered[sid])
            IN  /\ mx_held' = [mx_held EXCEPT ![sid] = r.held]
                /\ mx_streams' = [mx_streams EXCEPT ![sid].next = r.next]
                /\ mx_delivered' = [mx_delivered EXCEPT ![sid] = r.out]
       ELSE /\ mx_delivered' = [mx_delivered EXCEPT
                                    ![sid] = Append(@, [mid |-> mid, payload |-> payload])]
            /\ UNCHANGED <<mx_held, mx_streams>>

MuxOpenStream(i) ==
    /\ Arrives(i, "OpenStream")
    /\ LET f == gen_open_stream(MuxPool[i].bytes, feature_compression)
       IN  IF f.sid \in DOMAIN mx_streams
           THEN /\ LogViolation
                /\ UNCHANGED <<mx_streams, mx_held, mx_delivered>>
           ELSE /\ mx_streams' = Put(mx_streams, f.sid,
                        [prio |-> f.prio, promises |-> f.promises, next |-> FirstMid])
                /\ mx_held' = Put(mx_held, f.sid, <<>>)
                /\ mx_delivered' = IF f.sid \in DOMAIN mx_delivered THEN mx_delivered
                                   ELSE Put(mx_delivered, f.sid, <<>>)
                /\ UNCHANGED <<mx_violations, mx_errors, mx_chan>>
    /\ UNCHANGED <<mx_msgs, mx_completed, notMux>>

\* CloseStream: the stream's entry, its held messages and its incomplete
\* reassembly buffers are discarded
MuxCloseStream(i) ==
    /\ Arrives(i, "CloseStream")
    /\ LET f == gen_close_stream(MuxPool[i].bytes)
       IN  IF f.sid \notin DOMAIN mx_streams
           THEN /\ LogViolation
                /\ UNCHANGED <<mx_streams, mx_held, mx_msgs>>
           ELSE /\ mx_streams' = Drop(mx_streams, {f.sid})
                /\ mx_held' = Drop(mx_held, {f.sid})
                /\ mx_msgs' = Drop(mx_msgs, {m \in DOMAIN mx_msgs : mx_msgs[m].sid = f.sid})
                /\ UNCHANGED <<mx_violations, mx_errors, mx_chan>>
    /\ UNCHANGED <<mx_delivered, mx_completed, notMux>>

\* DataHeader: a reassembly buffer of the declared length for the message;
\* a header of an unknown or closed stream is a protocol violation
MuxDataHeader(i) ==
    /\ Arrives(i, "DataHeader")
    /\ LET h == gen_data_header(MuxPool[i].bytes)
       IN  IF h.sid \notin DOMAIN mx_streams \/ h.mid \in DOMAIN mx_msgs
           THEN /\ LogViolation
                /\ UNCHANGED mx_msgs
           ELSE /\ mx_msgs' = Put(mx_msgs, h.mid,
                        [sid |-> h.sid, length |-> h.length, bytes |-> <<>>])
                /\ UNCHANGED <<mx_violations, mx_errors, mx_chan>>
    /\ UNCHANGED <<mx_streams, mx_held, mx_delivered, mx_completed, notMux>>

\* Data: dropped silently when its message id has no buffer; rejected as a
\* protocol violation when its range goes beyond the declared length; else
\* written into the buffer at its offset, completing the message when every
\* byte is there
MuxData(i) ==
    /\ Arrives(i, "Data")
    /\ LET buf == MuxPool[i].bytes
           d == gen_data(SubSeq(buf, 1, DATA_LEN))
           data == SubSeq(buf, DATA_LEN + 1, Len(buf))
           len64 == d.length \o Zero(U64_BITS - U16_BITS)
       IN  IF d.mid \notin DOMAIN mx_msgs
           THEN UNCHANGED <<mx_streams, mx_msgs, mx_held, mx_delivered, mx_violations,
                            mx_errors, mx_chan, mx_completed>>
           ELSE LET m == mx_msgs[d.mid]
                IN  IF \/ AddOverflows(d.start, len64)
                       \/ Less(m.length, WrappingAdd(d.start, len64))
                    THEN /\ LogViolation
                         /\ UNCHANGED <<mx_streams, mx_msgs, mx_held, mx_delivered,
                                        mx_completed>>
                    ELSE LET at == FromBits(d.start)
                             bytes == [x \in DOMAIN m.bytes \cup
                                            {at + k - 1 : k \in 1..Len(data)} |->
                                        IF x >= at /\ x < at + Len(data)
                                        THEN data[x - at + 1] ELSE m.bytes[x]]
                         IN  /\ UNCHANGED <<mx_violations, mx_errors, mx_chan>>
                             /\ IF ToBits(Cardinality(DOMAIN bytes), U64_BITS) = m.length
                                THEN /\ mx_msgs' = Drop(mx_msgs, {d.mid})
                                     /\ Complete(m.sid, d.mid,
                                            [k \in 1..Cardinality(DOMAIN bytes) |->
                                                bytes[k - 1]], i)
                                ELSE /\ mx_msgs' = [mx_msgs EXCEPT ![d.mid].bytes = bytes]
                                     /\ UNCHANGED <<mx_streams, mx_held, mx_delivered,
                                                    mx_completed>>
    /\ UNCHANGED notMux

(***************************************************************************)
(* The send path of the multiplexer: a message of length L on stream S is  *)
(* sent as one DataHeader(mid, S, L) and then Data frames that carry the   *)
(* message's bytes from offset 0 on, each with at most the configured      *)
(* maximum of payload bytes.                                               *)
(***************************************************************************)
\* the largest payload length the u16 length field of a Data frame can hold
U16_MAX == 65535

\* bound of the exploration: the Data frames of one message
MaxFrames == 4

\* the message lengths submitted and the maxima configured
SendLengths ==
    {0, 1, 3, MaxFrames, MaxFrames + 1, U16_MAX, U16_MAX + 1, U16_MAX + 2, 2 * U16_MAX}
SendMaxima == {1, 2, U16_MAX, U16_MAX + 1}

FramesNeeded(len, max) == (len + max - 1) \div max
Min(a, b) == IF a <= b THEN a ELSE b

IdleSend ==
    /\ sn_msg = NoFrame
    /\ sn_max = 0
    /\ sn_offset = 0
    /\ sn_wire = <<>>

InitSend ==
    /\ sn_msg = NoFrame
    /\ sn_max \in SendMaxima
    /\ sn_offset = 0
    /\ sn_wire = <<>>

\* a message is submitted: its DataHeader is emitted
SendHeader(mid, sid, len) ==
    /\ sn_msg = NoFrame
    /\ FramesNeeded(len, sn_max) <= MaxFrames
    /\ sn_msg' = [kind |-> "Message", mid |-> mid, sid |-> sid, len |-> len]
    /\ sn_offset' = 0
    /\ sn_wire' = << [kind |-> "DataHeader",
                      bytes |-> encode([kind |-> "DataHeader", mid |-> mid, sid |-> sid,
                                        length |-> U64(len)]),
                      payload |-> 0] >>
    /\ UNCHANGED <<sn_max, notSend>>

\* the next Data frame: the bytes from sn_offset on, at most sn_max of them
SendData ==
    /\ sn_msg # NoFrame
    /\ sn_offset < sn_msg.len
    /\ LET n == Min(sn_max, sn_msg.len - sn_offset)
       IN  /\ sn_wire' = Append(sn_wire,
                    [kind |-> "Data",
                     bytes |-> encode_data_fixed(sn_msg.mid, U64(sn_offset), n),
                     payload |-> n])
           /\ sn_offset' = sn_offset + n
    /\ UNCHANGED <<sn_msg, sn_max, notSend>>

\* the message is sent whole: the stream takes the next one
SendDone ==
    /\ sn_msg # NoFrame
    /\ sn_offset = sn_msg.len
    /\ sn_msg' = NoFrame
    /\ sn_offset' = 0
    /\ sn_wire' = <<>>
    /\ UNCHANGED <<sn_max, notSend>>

(***************************************************************************)
(* Delivery of the messages submitted on one stream.  A submitted message  *)
(* is in flight until its reassembly completes at the receiver.  Its bytes *)
(* may be damaged on the way: a stream with CONSISTENCY then discards it,  *)
(* and with GUARANTEED_DELIVERY reports that a retry is needed.  An I/O    *)
(* failure closes the channel, loses what is in flight and is reported as  *)
(* the channel being lost.  A graceful shutdown accepts no new message and *)
(* closes the channel once the in-flight messages of a stream with         *)
(* GUARANTEED_DELIVERY are flushed.  CloseStream cancels the pending       *)
(* messages of the stream: their incomplete reassembly buffers are         *)
(* discarded, and no new message is accepted.                              *)
(***************************************************************************)
\* bound of the exploration: messages submitted on the stream
MaxMsgs == 2
Msgs == 1..MaxMsgs

\* the promise bytes streams are opened with: none, CONSISTENCY,
\* GUARANTEED_DELIVERY, and both
DlPromiseBytes == {0, 2, 4, 6}

\* the Promises the receiver holds for a stream opened with the promise byte
OpenedPromises(byte) ==
    gen_open_stream(encode([kind |-> "OpenStream", sid |-> SidA, prio |-> 0,
                            promises |-> byte]), FALSE).promises

IdleDelivery ==
    /\ dl_promises = [wire |-> 0, bits |-> 0]
    /\ dl_stream = "open"
    /\ dl_status = [m \in Msgs |-> "unsent"]
    /\ dl_delivered = [m \in Msgs |-> 0]
    /\ dl_reports = {}
    /\ dl_chan = "Unestablished"

InitDelivery ==
    /\ \E byte \in DlPromiseBytes :
            dl_promises = [wire |-> byte, bits |-> OpenedPromises(byte)]
    /\ dl_stream = "open"
    /\ dl_status = [m \in Msgs |-> "unsent"]
    /\ dl_delivered = [m \in Msgs |-> 0]
    /\ dl_reports = {}
    /\ dl_chan = "Established"

InFlight(m) == dl_status[m] \in {"inflight", "damaged"}

\* the application submits message m
DlSubmit(m) ==
    /\ dl_chan = "Established"
    /\ dl_stream = "open"
    /\ dl_status[m] = "unsent"
    /\ dl_status' = [dl_status EXCEPT ![m] = "inflight"]
    /\ UNCHANGED <<dl_promises, dl_stream, dl_delivered, dl_reports, dl_chan, notDelivery>>

\* bytes of message m are altered on the way
DlDamage(m) ==
    /\ dl_chan # "Closed"
    /\ dl_status[m] = "inflight"
    /\ dl_status' = [dl_status EXCEPT ![m] = "damaged"]
    /\ UNCHANGED <<dl_promises, dl_stream, dl_delivered, dl_reports, dl_chan, notDelivery>>

\* the reassembly of message m completes: with CONSISTENCY a damaged message
\* is discarded, and with GUARANTEED_DELIVERY that is reported as a retry
\* being needed; any other message is handed to the application
DlComplete(m) ==
    /\ dl_chan # "Closed"
    /\ InFlight(m)
    /\ IF dl_status[m] = "damaged" /\ Promises_contains(dl_promises.bits, CONSISTENCY)
       THEN /\ dl_status' = [dl_status EXCEPT ![m] = "discarded"]
            /\ dl_reports' =
                    IF Promises_contains(dl_promises.bits, GUARANTEED_DELIVERY)
                    THEN dl_reports \cup {"RetryNeeded"} ELSE dl_reports
            /\ UNCHANGED dl_delivered
       ELSE /\ dl_status' = [dl_status EXCEPT ![m] = "delivered"]
            /\ dl_delivered' = [dl_delivered EXCEPT ![m] = @ + 1]
            /\ UNCHANGED dl_reports
    /\ UNCHANGED <<dl_promises, dl_stream, dl_chan, notDelivery>>

\* CloseStream for the stream: the reassembly buffers of its messages that
\* are not complete are discarded, and the stream takes no new message
DlCloseStream ==
    /\ dl_chan \in {"Established", "ShuttingDown"}
    /\ dl_stream = "open"
    /\ dl_stream' = "closed"
    /\ dl_status' = [m \in Msgs |-> IF InFlight(m) THEN "cancelled" ELSE dl_status[m]]
    /\ UNCHANGED <<dl_promises, dl_delivered, dl_reports, dl_chan, notDelivery>>

\* the connection fails: the channel is Closed and reported lost, and what was
\* in flight is lost
DlIoFailure ==
    /\ dl_chan # "Closed"
    /\ dl_chan' = "Closed"
    /\ dl_reports' = dl_reports \cup {"ChannelLost"}
    /\ dl_status' = [m \in Msgs |-> IF InFlight(m) THEN "lost" ELSE dl_status[m]]
    /\ UNCHANGED <<dl_promises, dl_stream, dl_delivered, notDelivery>>

\* a Shutdown frame is received
DlRecvShutdown ==
    /\ dl_chan = "Established"
    /\ dl_chan' = "ShuttingDown"
    /\ UNCHANGED <<dl_promises, dl_stream, dl_status, dl_delivered, dl_reports, notDelivery>>

\* the graceful shutdown closes the channel, after the in-flight messages of a
\* stream with GUARANTEED_DELIVERY are flushed; in-flight messages of a stream
\* without it are dropped
DlFinishShutdown ==
    /\ dl_chan = "ShuttingDown"
    /\ Promises_contains(dl_promises.bits, GUARANTEED_DELIVERY) =>
            \A m \in Msgs : ~InFlight(m)
    /\ dl_chan' = "Closed"
    /\ dl_status' = [m \in Msgs |-> IF InFlight(m) THEN "lost" ELSE dl_status[m]]
    /\ UNCHANGED <<dl_promises, dl_stream, dl_delivered, dl_reports, notDelivery>>

(***************************************************************************)
(* The priority scheduler of one channel, the sole writer of its frames: a *)
(* weighted round robin keyed by priority.  In every round a stream may    *)
(* send as many frames as its weight; among the ready streams that may     *)
(* still send in the round, the one with the lowest priority number is     *)
(* written next; when no ready stream may send, a new round begins.        *)
(***************************************************************************)
SchedStreams == {1, 2}

\* the priorities (Prio = u8) the streams are opened with
SchedPrios == {0, 1, 255}

\* bound of the exploration: frames a stream has ready at a time
MaxQueue == 2

\* frames per round of a stream of the highest priority
MaxWeight == 3

\* frames per round of a stream of priority prio: fewer for a higher number,
\* never less than one
Weight(prio) == IF prio < MaxWeight THEN MaxWeight - prio ELSE 1

\* the streams that have a frame ready and may send in this round
Eligible(queue, credit) == {s \in SchedStreams : queue[s] > 0 /\ credit[s] > 0}

\* mutant: strict priority, whatever the stream has sent in the round
MutSchedPick(queue, credit, prio) ==
    LET ready == {s \in SchedStreams : queue[s] > 0}
    IN  {s \in ready : \A t \in ready : prio[s] < prio[t] \/ (prio[s] = prio[t] /\ s <= t)}

\* the stream written next: the eligible one of the lowest priority number
\* (of the lowest index among equals); empty when none is eligible
SchedPick(queue, credit, prio) ==
    LET e == Eligible(queue, credit)
    IN  {s \in e : \A t \in e : prio[s] < prio[t] \/ (prio[s] = prio[t] /\ s <= t)}

IdleSched ==
    /\ sch_prio = [s \in SchedStreams |-> 0]
    /\ sch_queue = [s \in SchedStreams |-> 0]
    /\ sch_credit = [s \in SchedStreams |-> 0]
    /\ sch_served = [s \in SchedStreams |-> FALSE]

InitSched ==
    /\ sch_prio \in [SchedStreams -> SchedPrios]
    /\ sch_queue = [s \in SchedStreams |-> 0]
    /\ sch_credit = [s \in SchedStreams |-> Weight(sch_prio[s])]
    /\ sch_served = [s \in SchedStreams |-> FALSE]

\* a stream gets a frame ready to send
SchSubmit(s) ==
    /\ sch_queue[s] < MaxQueue
    /\ sch_queue' = [sch_queue EXCEPT ![s] = @ + 1]
    /\ UNCHANGED <<sch_prio, sch_credit, sch_served, notSched>>

\* the scheduler writes a frame of the stream it picks
SchWrite(s) ==
    /\ s \in SchedPick(sch_queue, sch_credit, sch_prio)
    /\ sch_queue' = [sch_queue EXCEPT ![s] = @ - 1]
    /\ sch_credit' = [sch_credit EXCEPT ![s] = IF @ > 0 THEN @ - 1 ELSE 0]
    /\ sch_served' = [sch_served EXCEPT ![s] = ~@]
    /\ UNCHANGED <<sch_prio, notSched>>

\* no ready stream may send in this round: the next round begins
SchRefill ==
    /\ \E s \in SchedStreams : sch_queue[s] > 0
    /\ Eligible(sch_queue, sch_credit) = {}
    /\ sch_credit' = [s \in SchedStreams |-> Weight(sch_prio[s])]
    /\ UNCHANGED <<sch_prio, sch_queue, sch_served, notSched>>

(***************************************************************************)
(* Frame kinds as numbers and names (Frame::get_int, Frame::int_to_string  *)
(* and Frame::get_string, compiled with the "metrics" feature).            *)
(***************************************************************************)
FRAMES_LEN == 8
NoInt == 0 - 1
NoName == "NoName"

\* Frame::int_to_string
int_to_string(i) ==
    CASE i = 0 -> "Handshake"
      [] i = 1 -> "Init"
      [] i = 2 -> "Shutdown"
      [] i = 3 -> "OpenStream"
      [] i = 4 -> "CloseStream"
      [] i = 5 -> "DataHeader"
      [] i = 6 -> "Data"
      [] i = 7 -> "Raw"
      [] OTHER -> ""

\* mutant: Shutdown and OpenStream numbered in the order the enum's other uses list them
MutGetInt(frame) ==
    CASE frame.kind = "Handshake" -> 0
      [] frame.kind = "Init" -> 1
      [] frame.kind = "OpenStream" -> 2
      [] frame.kind = "Shutdown" -> 3
      [] frame.kind = "CloseStream" -> 4
      [] frame.kind = "DataHeader" -> 5
      [] frame.kind = "Data" -> 6
      [] frame.kind = "Raw" -> 7

\* Frame::get_int
get_int(frame) ==
    CASE frame.kind = "Handshake" -> 0
      [] frame.kind = "Init" -> 1
      [] frame.kind = "Shutdown" -> 2
      [] frame.kind = "OpenStream" -> 3
      [] frame.kind = "CloseStream" -> 4
      [] frame.kind = "DataHeader" -> 5
      [] frame.kind = "Data" -> 6
      [] frame.kind = "Raw" -> 7

\* Frame::get_string
get_string(frame) == int_to_string(get_int(frame))

\* frames of every kind
MetricFrames == SampleFrames(FALSE) \cup {[kind |-> "Shutdown"]}

IdleMetrics ==
    /\ mt_frame = NoFrame
    /\ mt_int = NoInt
    /\ mt_name = NoName

\* a caller asks for a frame's number
MetGetInt(frame) ==
    /\ mt_frame' = frame
    /\ mt_int' = get_int(frame)
    /\ mt_name' = NoName
    /\ UNCHANGED notMetrics

\* a caller asks for a frame's name
MetGetString(frame) ==
    /\ mt_frame' = frame
    /\ mt_int' = get_int(frame)
    /\ mt_name' = get_string(frame)
    /\ UNCHANGED notMetrics

\* a caller asks for the name of a number, any u8
MetIntToString(i) ==
    /\ mt_frame' = NoFrame
    /\ mt_int' = i
    /\ mt_name' = int_to_string(i)
    /\ UNCHANGED notMetrics

(***************************************************************************)
(* Participant ids: the test fixture Pid::fake and the six characters a    *)
(* Pid is shown as (impl Debug for Pid, which Display uses).               *)
(***************************************************************************)
\* a >> k and a << k at the width of a
ShiftRight(a, k) == [i \in 1..Len(a) |-> IF i + k <= Len(a) THEN a[i + k] ELSE 0]
ShiftLeft(a, k) == [i \in 1..Len(a) |-> IF i > k THEN a[i - k] ELSE 0]
\* a & b
BitsAnd(a, b) == [i \in 1..Len(a) |-> a[i] * b[i]]

\* the 16-bit limbs of a, least significant first
Limbs(a) == [j \in 1..(Len(a) \div 16) |-> FromBits(SubSeq(a, 16 * (j - 1) + 1, 16 * j))]

RECURSIVE LimbSum(_, _, _)
\* the bits of x + y + c for limbs x and y, the carry out of the last limb dropped
LimbSum(x, y, c) ==
    IF x = <<>> THEN <<>>
    ELSE LET s == Head(x) + Head(y) + c
         IN  ToBits(s % 65536, 16) \o LimbSum(Tail(x), Tail(y), s \div 65536)

\* a + b truncated to the operands' width, for operands as wide as a u128
WideAdd(a, b) == LimbSum(Limbs(a), Limbs(b), 0)

RECURSIVE SumShifts(_, _)
\* the sum of a << k over the k of S, truncated to the width of a
SumShifts(a, S) ==
    IF S = {} THEN Zero(Len(a))
    ELSE LET k == CHOOSE x \in S : TRUE
         IN  WideAdd(ShiftLeft(a, k), SumShifts(a, S \ {k}))

\* a * b: a shifted to every bit that is set in b; no product of Pid::fake
\* exceeds the width
Mul(a, b) == SumShifts(a, {k \in 0..(Len(b) - 1) : b[k + 1] = 1})

\* the bound of Pid::fake's assertion
FAKE_LIMIT == 8
\* const OFF of Pid::fake: the powers 0x40 ^ 1 .. 0x40 ^ 5
OFF ==
    <<U128(64), U128(64 * 64), U128(64 * 64 * 64), U128(64 * 64 * 64 * 64),
      U128(64 * 64 * 64 * 64 * 64)>>

\* mutant: the last term of the sum left out
MutPidFake(pid_offset) ==
    LET o == U128(pid_offset)
    IN  WideAdd(WideAdd(WideAdd(WideAdd(o,
            Mul(o, OFF[1])), Mul(o, OFF[2])), Mul(o, OFF[3])), Mul(o, OFF[4]))

\* Pid::fake past its assertion: o + o * OFF[0] + ... + o * OFF[4]
Pid_fake(pid_offset) ==
    LET o == U128(pid_offset)
    IN  WideAdd(WideAdd(WideAdd(WideAdd(WideAdd(o,
            Mul(o, OFF[1])), Mul(o, OFF[2])), Mul(o, OFF[3])), Mul(o, OFF[4])),
            Mul(o, OFF[5]))

BITS_PER_SIXLET == 6
CHAR_COUNT == 6
\* 0x3F
SIXLET_MASK == U128(63)
USIZE_BITS == 64

\* the byte string sixlet_to_str indexes, one character per entry
SIXLET_TABLE ==
    <<"A", "B", "C", "D", "E", "F", "G", "H", "I", "J", "K", "L", "M", "N", "O", "P",
      "Q", "R", "S", "T", "U", "V", "W", "X", "Y", "Z", "a", "b", "c", "d", "e", "f",
      "g", "h", "i", "j", "k", "l", "m", "n", "o", "p", "q", "r", "s", "t", "u", "v",
      "w", "x", "y", "z", "0", "1", "2", "3", "4", "5", "6", "7", "8", "9", "+", "/">>

\* what an index past the end of the table gives: the slice index panics
IndexPanic == "index out of bounds"

\* sixlet_to_str: the table at (sixlet as usize)
sixlet_to_str(sixlet) ==
    LET idx == SubSeq(sixlet, 1, USIZE_BITS)
    IN  IF \E i \in (BITS_PER_SIXLET + 1)..USIZE_BITS : idx[i] = 1 THEN IndexPanic
        ELSE SIXLET_TABLE[FromBits(SubSeq(idx, 1, BITS_PER_SIXLET)) + 1]

NoText == [kind |-> "None"]

\* mutant: the sixlets taken a byte apart
MutPidFmt(self) ==
    LET cs == [i \in 1..CHAR_COUNT |->
                sixlet_to_str(BitsAnd(ShiftRight(self, (i - 1) * 8), SIXLET_MASK))]
    IN  IF \E i \in 1..CHAR_COUNT : cs[i] = IndexPanic THEN [kind |-> "Panic"]
        ELSE [kind |-> "Text", chars |-> cs]

\* impl Debug for Pid (fmt), and Display through it: the characters written
Pid_fmt(self) ==
    LET cs == [i \in 1..CHAR_COUNT |->
                sixlet_to_str(
                    BitsAnd(ShiftRight(self, (i - 1) * BITS_PER_SIXLET), SIXLET_MASK))]
    IN  IF \E i \in 1..CHAR_COUNT : cs[i] = IndexPanic THEN [kind |-> "Panic"]
        ELSE [kind |-> "Text", chars |-> cs]

\* the bits of a Pid that differ from those of p only above bit k
FlipAbove(p, k) == [i \in 1..Len(p) |-> IF i > k THEN 1 - p[i] ELSE p[i]]

\* Pids that Pid::new's random generator can return
SamplePids ==
    {Zero(U128_BITS), Ones(U128_BITS), Pattern(U128_BITS), U128(29), U128(63),
     FlipAbove(Pattern(U128_BITS), 36), FlipAbove(Ones(U128_BITS), 36),
     Pow2(64, U128_BITS)}

\* the offsets a caller passes to Pid::fake: all it accepts, and some it does not
FakeOffsets == 0..(FAKE_LIMIT - 1) \cup {FAKE_LIMIT, FAKE_LIMIT + 1, 64, 255}

IdlePid ==
    /\ pf_offset = NoInt
    /\ pf_pid = NoId
    /\ pf_text = NoText
    /\ pf_prev_pid = NoId
    /\ pf_prev_text = NoText
    /\ pf_panicked = FALSE

\* the Pid and text shown last move to the previous slot when a new Pid is made
KeepShown ==
    IF pf_text = NoText THEN UNCHANGED <<pf_prev_pid, pf_prev_text>>
    ELSE pf_prev_pid' = pf_pid /\ pf_prev_text' = pf_text

\* Pid::new: a random u128
PidNew(p) ==
    /\ ~pf_panicked
    /\ pf_offset' = NoInt
    /\ pf_pid' = p
    /\ pf_text' = NoText
    /\ KeepShown
    /\ UNCHANGED <<pf_panicked, notPid>>

\* Pid::fake(pid_offset) for any u8: the assertion, then the sum
PidFake(pid_offset) ==
    /\ ~pf_panicked
    /\ pf_offset' = pid_offset
    /\ IF pid_offset < FAKE_LIMIT
       THEN /\ pf_pid' = Pid_fake(pid_offset)
            /\ pf_text' = NoText
            /\ KeepShown
            /\ UNCHANGED pf_panicked
       ELSE /\ pf_panicked' = TRUE
            /\ UNCHANGED <<pf_pid, pf_text, pf_prev_pid, pf_prev_text>>
    /\ UNCHANGED notPid

\* format!("{}", pid)
PidFormat ==
    /\ ~pf_panicked
    /\ pf_pid # NoId
    /\ pf_text = NoText
    /\ pf_text' = Pid_fmt(pf_pid)
    /\ UNCHANGED <<pf_offset, pf_pid, pf_prev_pid, pf_prev_text, pf_panicked, notPid>>

(***************************************************************************)
(* The game client (client/src/lib.rs): a tick handles the messages the    *)
(* server sent since the last one, then advances the local state.          *)
(***************************************************************************)
NoComp == <<>>
\* bound: the entities a client's world holds
MaxEntities == 3
\* bound: the ticks of a run
MaxTicks == 2
\* bound: the messages that arrive between two ticks
MaxBatch == 2
ClientUids == {1, 2}
ClientPos == {0, 1}
\* the move_dir of the frontend's Input, along one axis
MoveDirs == {0, 1}
\* the dt the frontend ticks with
TickPeriods == {1}

\* the messages of the server the client handles
ServerMsgs ==
    {[kind |-> "Shutdown"], [kind |-> "Chat"]}
    \cup {[kind |-> "EntityPhysics", uid |-> u, pos |-> x, vel |-> 0, dir |-> 0] :
            u \in ClientUids, x \in ClientPos}
MsgBatches == UNION {[1..n -> ServerMsgs] : n \in 1..MaxBatch}

\* ecs_world_mut().create_entity().with(comp::Uid(uid)).build(): a new entity
\* that has the Uid component only; the entity is its position in the world
create_entity(entities, uid) ==
    Append(entities, [uid |-> <<uid>>, pos |-> NoComp, vel |-> NoComp, dir |-> NoComp])

\* Client::get_or_create_entity: the world after the call, and the entity returned
get_or_create_entity(entities, uid) ==
    [entities |-> create_entity(entities, uid), entity |-> Len(entities) + 1]

\* State::write_component for the components of an EntityPhysics message
write_physics(entities, e, msg) ==
    [entities EXCEPT ![e] =
        [@ EXCEPT !.pos = <<msg.pos>>, !.vel = <<msg.vel>>, !.dir = <<msg.dir>>]]

\* State::new_test_player: a new entity; it has no Uid, and of its components
\* the world holds those the client writes
new_test_player(entities) ==
    Append(entities, [uid |-> NoComp, pos |-> NoComp, vel |-> NoComp, dir |-> NoComp])

\* const PLAYER_VELOCITY: f32 = 100.0
PLAYER_VELOCITY == 100

\* Client::tick, step 3: the player's Vel is written from the input
write_player_vel(entities, player, input) ==
    IF player = <<>> THEN entities
    ELSE [entities EXCEPT ![player[1]].vel = <<input.move_dir * PLAYER_VELOCITY>>]

\* State::tick(dt): the state's time moves on by dt
state_tick(time, dt) == time + dt

RECURSIVE HandleMessages(_, _, _)
\* the loop of handle_new_messages over the messages not yet handled
HandleMessages(entities, events, msgs) ==
    IF msgs = <<>> THEN [entities |-> entities, events |-> events, result |-> "Ok"]
    ELSE LET msg == Head(msgs)
         IN  CASE msg.kind = "Shutdown" ->
                    [entities |-> entities, events |-> <<>>, result |-> "ServerShutdown"]
               [] msg.kind = "Chat" -> HandleMessages(entities, Append(events, "Chat"), Tail(msgs))
               [] msg.kind = "EntityPhysics" ->
                    LET got == get_or_create_entity(entities, msg.uid)
                    IN  HandleMessages(write_physics(got.entities, got.entity, msg), events,
                                       Tail(msgs))

\* the entities the messages of a batch create
Created(msgs) == Cardinality({i \in 1..Len(msgs) : msgs[i].kind = "EntityPhysics"})

IdleClient ==
    /\ cl_entities = <<>>
    /\ cl_player = <<>>
    /\ cl_time = 0
    /\ cl_tick = 0
    /\ cl_last_ping = 0
    /\ cl_events = <<>>
    /\ cl_result = "Ok"

\* Client::new
InitClient == IdleClient

\* Client::with_test_state: the client gets a test player
ClWithTestState ==
    /\ cl_result = "Ok"
    /\ Len(cl_entities) < MaxEntities
    /\ cl_entities' = new_test_player(cl_entities)
    /\ cl_player' = <<Len(cl_entities) + 1>>
    /\ UNCHANGED <<cl_time, cl_tick, cl_last_ping, cl_events, cl_result, notClient>>

\* Client::get_or_create_entity called by the frontend
ClGetOrCreateEntity(uid) ==
    /\ cl_result = "Ok"
    /\ Len(cl_entities) < MaxEntities
    /\ cl_entities' = get_or_create_entity(cl_entities, uid).entities
    /\ UNCHANGED <<cl_player, cl_time, cl_tick, cl_last_ping, cl_events, cl_result,
                   notClient>>

\* Client::tick with new messages in the postbox: an Err of
\* handle_new_messages is returned at once, else the player's Vel is written
\* and the state ticks
ClTick(msgs, input, dt) ==
    /\ cl_result = "Ok"
    /\ cl_tick < MaxTicks
    /\ Len(cl_entities) + Created(msgs) <= MaxEntities
    /\ LET r == HandleMessages(cl_entities, <<>>, msgs)
       IN  /\ cl_last_ping' = cl_time
           /\ cl_events' = r.events
           /\ cl_result' = r.result
           /\ IF r.result = "Ok"
              THEN /\ cl_entities' = write_player_vel(r.entities, cl_player, input)
                   /\ cl_time' = state_tick(cl_time, dt)
                   /\ cl_tick' = cl_tick + 1
              ELSE /\ cl_entities' = r.entities
                   /\ UNCHANGED <<cl_time, cl_tick>>
    /\ UNCHANGED <<cl_player, notClient>>

\* Client::tick with no new message: the postbox's error, if it has one, is
\* returned at once
ClTickQuiet(status, input, dt) ==
    /\ cl_result = "Ok"
    /\ cl_tick < MaxTicks
    /\ cl_events' = <<>>
    /\ cl_result' = status
    /\ IF status = "Ok"
       THEN /\ cl_entities' = write_player_vel(cl_entities, cl_player, input)
            /\ cl_time' = state_tick(cl_time, dt)
            /\ cl_tick' = cl_tick + 1
       ELSE UNCHANGED <<cl_entities, cl_time, cl_tick>>
    /\ UNCHANGED <<cl_player, cl_last_ping, notClient>>

\* Client::state_mut: the frontend gets the state; the call changes nothing
ClStateMut ==
    /\ cl_result = "Ok"
    /\ UNCHANGED vars

\* Client::cleanup: State::cleanup leaves the entities, the time and the tick
\* as they are
ClCleanup ==
    /\ cl_result = "Ok"
    /\ UNCHANGED vars

(***************************************************************************)
(* The game server's message system (server/src/sys/message.rs).  A run of *)
(* the system handles, for each client, the messages that have arrived     *)
(* (handle_client_msg, until the run's time for the client is used up, the *)
(* handler breaks or receiving fails), then settles the client's ping.     *)
(* The model follows one client entity.  A world w is the record           *)
(* [client, ecs, run] the handler reads and writes.                        *)
(***************************************************************************)
None == <<>>
Some(x) == <<x>>
ClientStates == {"Pending", "Connected", "Registered", "Spectator", "Character"}

\* Client::notify: a message to the client
notify(w, msg) == [w EXCEPT !.client.outbox = Append(@, msg)]
\* Client::error_state: the request is refused; the state stays
error_state(w, error) ==
    notify(w, [kind |-> "StateAnswerErr", error |-> error, state |-> w.client.client_state])
\* Client::allow_state: the request is granted; the client has the new state
allow_state(w, new_state) ==
    notify([w EXCEPT !.client.client_state = new_state],
           [kind |-> "StateAnswerOk", state |-> new_state])
\* a ServerEvent that carries nothing the model follows
Ev(kind) == [kind |-> kind]
\* Emitter::emit: a server event for the systems that run later
emit(w, event) == [w EXCEPT !.run.events = Append(@, event)]
\* ServerEvent::ClientDisconnect, counted under the label in
\* player_metrics.clients_disconnected
disconnect(w, label) == [emit(w, Ev("ClientDisconnect")) EXCEPT !.run.disconnected = label]

\* a request to the CharacterLoader, which answers on a later tick
load(w, request) == [w EXCEPT !.run.loads = Append(@, request)]
\* a call on a resource or component the system writes through: block_changes
\* or the skill_set of the entity's stats
call(w, c) == [w EXCEPT !.run.calls = Append(@, c)]

Next_(w) == [w |-> w, flow |-> "next"]
Break_(w) == [w |-> w, flow |-> "break"]

\* ClientMsg::ExitIngame
HandleExitIngame(w) ==
    CASE w.client.client_state = "Connected" -> error_state(w, "WrongMessage")
      [] w.client.client_state = "Registered" -> error_state(w, "Already")
      [] w.client.client_state \in {"Spectator", "Character"} -> emit(w, Ev("ExitIngame"))
      [] w.client.client_state = "Pending" -> w

\* mutant: a client that is only connected may spectate
MutHandleSpectate(w) ==
    CASE w.client.client_state = "Spectator" -> error_state(w, "Already")
      [] w.client.client_state \in {"Connected", "Registered", "Character"} ->
            allow_state(w, "Spectator")
      [] w.client.client_state = "Pending" -> w

\* ClientMsg::Spectate
HandleSpectate(w) ==
    CASE w.client.client_state = "Connected" -> error_state(w, "Impossible")
      [] w.client.client_state = "Spectator" -> error_state(w, "Already")
      [] w.client.client_state \in {"Registered", "Character"} -> allow_state(w, "Spectator")
      [] w.client.client_state = "Pending" -> w

\* vd.min(max_view_distance.unwrap_or(vd))
ClampVd(vd, max) == IF max # None /\ max[1] < vd THEN max[1] ELSE vd

\* settings.max_view_distance.zip(view_distance).map(|(max, vd)| vd > max).unwrap_or(false)
AboveMax(view_distance, max) ==
    max # None /\ view_distance # None /\ view_distance[1] > max[1]

\* settings.max_view_distance.unwrap_or(0)
MaxOrZero(max) == IF max = None THEN 0 ELSE max[1]

\* mutant: the player is inserted and the request granted from any state
MutRegisterGranted(w, player, is_admin) ==
    LET w1 == [w EXCEPT !.ecs.player = Some(player),
                        !.ecs.admin = IF is_admin THEN TRUE ELSE @]
        w2 == notify(allow_state(w1, "Registered"), [kind |-> "PlayerListInit"])
    IN  [w2 EXCEPT !.run.new_players = Append(@, "entity")]

\* ClientMsg::Register after login and validation, by the client's state
RegisterGranted(w, player, is_admin) ==
    IF w.client.client_state = "Connected"
    THEN LET w1 == [w EXCEPT !.ecs.player = Some(player),
                             !.ecs.admin = IF is_admin THEN TRUE ELSE @]
             w2 == notify(allow_state(w1, "Registered"), [kind |-> "PlayerListInit"])
         IN  [w2 EXCEPT !.run.new_players = Append(@, "entity")]
    ELSE error_state(w, "Impossible")

\* mutant: the view distance of a new player taken as requested
MutRegisterVd(view_distance, max) == view_distance

\* ClientMsg::Register: view_distance.map(|vd| vd.min(max.unwrap_or(vd)))
RegisterVd(view_distance, max) ==
    IF view_distance = None THEN None ELSE Some(ClampVd(view_distance[1], max))

\* ClientMsg::Register { view_distance, token_or_username }; login_ok is what
\* LoginProvider::try_login answers for the token, valid what Player::is_valid
\* answers for the name, admin whether the admin list holds the name
HandleRegister(w, msg, settings) ==
    IF ~msg.login_ok THEN Break_(error_state(w, "RegisterDenied"))
    ELSE LET player == [view_distance |->
                            RegisterVd(msg.view_distance, settings.max_view_distance)]
         IN  IF ~msg.valid THEN Break_(error_state(w, "Impossible"))
             ELSE LET w1 == RegisterGranted(w, player, msg.admin)
                  IN  Next_(IF AboveMax(msg.view_distance, settings.max_view_distance)
                            THEN notify(w1, [kind |-> "SetViewDistance",
                                             vd |-> MaxOrZero(settings.max_view_distance)])
                            ELSE w1)

\* mutant: the view distance of a player set as requested
MutSetVd(view_distance, max) == view_distance

\* ClientMsg::SetViewDistance: max.map(|max| view_distance.min(max)).unwrap_or(view_distance)
SetVd(view_distance, max) == ClampVd(view_distance, max)

\* ClientMsg::SetViewDistance(view_distance)
HandleSetViewDistance(w, msg, settings) ==
    IF w.client.client_state = "Character"
    THEN LET w1 == IF w.ecs.player = None THEN w
                   ELSE [w EXCEPT !.ecs.player =
                            Some([@[1] EXCEPT !.view_distance =
                                    Some(SetVd(msg.vd, settings.max_view_distance))])]
         IN  IF AboveMax(Some(msg.vd), settings.max_view_distance)
             THEN notify(w1, [kind |-> "SetViewDistance",
                              vd |-> MaxOrZero(settings.max_view_distance)])
             ELSE w1
    ELSE w

\* the entity of the client the system is handling
ClientEntity == "entity"
\* (None, UnresolvedChatMsg { chat_type: ChatType::Online(uid), message: "" })
OnlineMsg == [entity |-> None, chat_type |-> "Online", message |-> <<>>]

\* mutant: the login message is queued whether or not it was sent before
MutLoginMessage(w) ==
    IF w.ecs.uid
    THEN [w EXCEPT !.run.new_chat_msgs = Append(@, OnlineMsg),
                   !.client.login_msg_sent = TRUE]
    ELSE w

\* ClientMsg::Character: the login message, if it was not sent previously
LoginMessage(w) ==
    IF ~w.client.login_msg_sent /\ w.ecs.uid
    THEN [w EXCEPT !.run.new_chat_msgs = Append(@, OnlineMsg),
                   !.client.login_msg_sent = TRUE]
    ELSE w

\* ClientMsg::Character(character_id)
HandleCharacter(w, msg, settings) ==
    CASE w.client.client_state = "Connected" -> error_state(w, "Impossible")
      [] w.client.client_state \in {"Registered", "Spectator"} ->
            IF w.ecs.player # None
            THEN LET w1 == load(w, [op |-> "load_character_data",
                                    character_id |-> msg.character_id])
                     w2 == emit(w1, Ev("InitCharacterData"))
                     w3 == IF settings.server_description # ""
                           THEN notify(w2, [kind |-> "CommandInfo"])
                           ELSE w2
                 IN  LoginMessage(w3)
            ELSE notify(w, [kind |-> "CharacterDataLoadError"])
      [] w.client.client_state = "Character" -> error_state(w, "Already")
      [] w.client.client_state = "Pending" -> w

\* mutant: the guard of the controller messages accepts a spectator
MutControlAllowed(client_state) == client_state \in {"Character", "Spectator"}

\* the arm of ControllerInputs, ControlEvent and ControlAction that acts
ControlAllowed(client_state) == client_state = "Character"

\* the arms of the controller messages that act or refuse, by the client's state
Controlled(w, acted) ==
    CASE ControlAllowed(w.client.client_state) -> acted
      [] w.client.client_state = "Pending" -> w
      [] OTHER -> error_state(w, "Impossible")

\* stats.get(entity).map_or(true, |s| !s.is_dead)
NotDead(w) == w.ecs.stats # "Dead"

\* ClientMsg::ControllerInputs(inputs)
HandleControllerInputs(w, msg) ==
    Controlled(w,
        IF w.ecs.controller = None THEN w
        ELSE [w EXCEPT !.ecs.controller = Some([@[1] EXCEPT !.inputs = msg.inputs])])

\* ClientMsg::ControlEvent(event)
HandleControlEvent(w, msg) ==
    Controlled(w,
        IF msg.event = "Respawn" /\ NotDead(w) THEN w
        ELSE IF w.ecs.controller = None THEN w
        ELSE [w EXCEPT !.ecs.controller =
                Some([@[1] EXCEPT !.events = Append(@, msg.event)])])

\* ClientMsg::ControlAction(event)
HandleControlAction(w, msg) ==
    Controlled(w,
        IF w.ecs.controller = None THEN w
        ELSE [w EXCEPT !.ecs.controller =
                Some([@[1] EXCEPT !.actions = Append(@, msg.event)])])

\* bound: MAX_BYTES_CHAT_MSG, the longest chat message validate_chat_msg lets by
MaxChatBytes == 3

\* validate_chat_msg: Ok(()) or Err(ChatMsgValidationError::TooLong)
validate_chat_msg(message) == IF Len(message) > MaxChatBytes THEN "TooLong" ELSE "Ok"

\* mutant: a client that has not registered may chat
MutChatAllowed(client_state) ==
    client_state \in {"Connected", "Registered", "Spectator", "Character"}

\* the arm of ChatMsg that looks at the message
ChatAllowed(client_state) == client_state \in {"Registered", "Spectator", "Character"}

\* ClientMsg::ChatMsg(message); the message the chat mode makes of it is of
\* the mode's ChatType
HandleChatMsg(w, msg) ==
    CASE ChatAllowed(w.client.client_state) ->
            IF validate_chat_msg(msg.message) = "Ok"
            THEN IF w.ecs.uid
                 THEN [w EXCEPT !.run.new_chat_msgs =
                            Append(@, [entity |-> Some(ClientEntity), chat_type |-> "Mode",
                                       message |-> msg.message])]
                 ELSE w
            ELSE w
      [] w.client.client_state = "Connected" -> error_state(w, "Impossible")
      [] OTHER -> w

\* mutant: the positions of a dead entity are taken
MutPhysicsAccepted(w) == w.ecs.force_update = FALSE

\* force_updates.get(entity).is_none() && stats.get(entity).map_or(true, |s| !s.is_dead)
PhysicsAccepted(w) == w.ecs.force_update = FALSE /\ NotDead(w)

\* ClientMsg::PlayerPhysics { pos, vel, ori }
HandlePlayerPhysics(w, msg) ==
    IF w.client.client_state = "Character"
    THEN IF PhysicsAccepted(w)
         THEN [w EXCEPT !.ecs.pos = Some(msg.pos), !.ecs.vel = Some(msg.vel),
                        !.ecs.ori = Some(msg.ori)]
         ELSE w
    ELSE error_state(w, "Impossible")

\* TerrainChunkSize::RECT_SIZE, the blocks along the x and along the y of a chunk
RECT_SIZE == 32

\* the keys of the chunks the TerrainGrid holds; a key k stands for (k, 0), a
\* position p for (p, 0, 0)
LoadedChunks == {0}

\* terrain.get(pos).ok(): the block at pos, if the chunk of pos is loaded
terrain_get(pos) ==
    IF (pos \div RECT_SIZE) \in LoadedChunks THEN Some("block") ELSE None

\* terrain.get_key(key): the chunk of the key, if it is loaded
terrain_get_key(key) == IF key \in LoadedChunks THEN Some("chunk") ELSE None

\* ClientMsg::BreakBlock(pos)
HandleBreakBlock(w, msg) ==
    IF w.ecs.can_build /\ terrain_get(msg.pos) # None
    THEN call(w, [op |-> "block_changes.set", pos |-> msg.pos, block |-> "vacant"])
    ELSE w

\* ClientMsg::PlaceBlock(pos, block)
HandlePlaceBlock(w, msg) ==
    IF w.ecs.can_build
    THEN call(w, [op |-> "block_changes.try_set", pos |-> msg.pos, block |-> msg.block])
    ELSE w

\* pos.0.xy().distance(key.map(|e| e as f64 + 0.5) * RECT_SIZE)
\*     < (view_distance as f64 - 1.0 + 2.5 * 2.0_f64.sqrt()) * RECT_SIZE.x
\* for the position (p, 0, 0) and the key (key, 0), in whole numbers.  With
\* a = view_distance - 1 and S = RECT_SIZE the right side is positive, so the
\* comparison is that of the squares, dist^2 < S^2 (a^2 + 5 a sqrt(2) + 12.5),
\* which is D < R sqrt(2) for the D and R below
WithinViewDistance(view_distance, p, key) ==
    LET S == RECT_SIZE
        a == view_distance - 1
        dx == p - S * key - (S \div 2)
        dy == 0 - (S \div 2)
        dist2 == dx * dx + dy * dy
        D == dist2 - S * S * a * a - (25 * S * S) \div 2
        R == 5 * S * S * a
    IN  IF R >= 0 THEN D < 0 \/ D * D < 2 * R * R
        ELSE D < 0 /\ D * D > 2 * R * R

\* in_vd: true unless the player has a view distance and a position and the
\* chunk is beyond it
in_vd(w, key) ==
    IF w.ecs.player # None /\ w.ecs.player[1].view_distance # None /\ w.ecs.pos # None
    THEN WithinViewDistance(w.ecs.player[1].view_distance[1], w.ecs.pos[1], key)
    ELSE TRUE

\* ClientMsg::TerrainChunkRequest { key }; the request is counted in
\* network_metrics as dropped, served from memory or triggering a generation
HandleTerrainChunkRequest(w, msg) ==
    CASE w.client.client_state \in {"Connected", "Registered"} ->
            error_state([w EXCEPT !.run.chunks_request_dropped = @ + 1], "Impossible")
      [] w.client.client_state \in {"Spectator", "Character"} ->
            IF in_vd(w, msg.key)
            THEN IF terrain_get_key(msg.key) # None
                 THEN notify([w EXCEPT !.run.chunks_served_from_memory = @ + 1],
                             [kind |-> "TerrainChunkUpdate", key |-> msg.key,
                              chunk |-> terrain_get_key(msg.key)[1]])
                 ELSE emit([w EXCEPT !.run.chunks_generation_triggered = @ + 1],
                           [kind |-> "ChunkRequest", entity |-> ClientEntity,
                            key |-> msg.key])
            ELSE [w EXCEPT !.run.chunks_request_dropped = @ + 1]
      [] w.client.client_state = "Pending" -> w

\* ClientMsg::RequestCharacterList
HandleRequestCharacterList(w) ==
    IF w.ecs.player # None THEN load(w, [op |-> "load_character_list"]) ELSE w

\* ClientMsg::CreateCharacter { alias, tool, body }; alias_ok is what
\* alias_validator.validate answers for the alias
HandleCreateCharacter(w, msg) ==
    IF ~msg.alias_ok THEN notify(w, [kind |-> "CharacterActionError"])
    ELSE IF w.ecs.player # None
    THEN load(w, [op |-> "create_character", alias |-> msg.alias])
    ELSE w

\* ClientMsg::DeleteCharacter(character_id)
HandleDeleteCharacter(w, msg) ==
    IF w.ecs.player # None
    THEN load(w, [op |-> "delete_character", character_id |-> msg.character_id])
    ELSE w

\* ClientMsg::UnlockSkill, RefundSkill and UnlockSkillGroup:
\* stats.get_mut(entity).map(|s| s.skill_set.op(..))
HandleSkill(w, op, what) ==
    IF w.ecs.stats # "None" THEN call(w, [op |-> op, what |-> what]) ELSE w

\* one turn of the loop of Sys::handle_client_msg: the world after the
\* message, and whether the loop goes on or breaks
handle_client_msg(w0, msg, settings) ==
    LET w == [w0 EXCEPT !.run.cnt = @ + 1, !.run.msg = msg.kind]
    IN  CASE msg.kind = "ExitIngame" -> Next_(HandleExitIngame(w))
          [] msg.kind = "Spectate" -> Next_(HandleSpectate(w))
          [] msg.kind = "Register" -> HandleRegister(w, msg, settings)
          [] msg.kind = "SetViewDistance" -> Next_(HandleSetViewDistance(w, msg, settings))
          [] msg.kind = "Character" -> Next_(HandleCharacter(w, msg, settings))
          [] msg.kind = "ControllerInputs" -> Next_(HandleControllerInputs(w, msg))
          [] msg.kind = "ControlEvent" -> Next_(HandleControlEvent(w, msg))
          [] msg.kind = "ControlAction" -> Next_(HandleControlAction(w, msg))
          [] msg.kind = "ChatMsg" -> Next_(HandleChatMsg(w, msg))
          [] msg.kind = "PlayerPhysics" -> Next_(HandlePlayerPhysics(w, msg))
          [] msg.kind = "BreakBlock" -> Next_(HandleBreakBlock(w, msg))
          [] msg.kind = "PlaceBlock" -> Next_(HandlePlaceBlock(w, msg))
          [] msg.kind = "TerrainChunkRequest" -> Next_(HandleTerrainChunkRequest(w, msg))
          [] msg.kind = "Ping" -> Next_(notify(w, [kind |-> "Pong"]))
          [] msg.kind = "Pong" -> Next_(w)
          [] msg.kind = "Disconnect" -> Next_(notify(w, [kind |-> "Disconnect"]))
          [] msg.kind = "Terminate" -> Break_(disconnect(w, "gracefully"))
          [] msg.kind = "RequestCharacterList" -> Next_(HandleRequestCharacterList(w))
          [] msg.kind = "CreateCharacter" -> Next_(HandleCreateCharacter(w, msg))
          [] msg.kind = "DeleteCharacter" -> Next_(HandleDeleteCharacter(w, msg))
          [] msg.kind = "UnlockSkill" ->
                Next_(HandleSkill(w, "skill_set.unlock_skill", msg.skill))
          [] msg.kind = "RefundSkill" ->
                Next_(HandleSkill(w, "skill_set.refund_skill", msg.skill))
          [] msg.kind = "UnlockSkillGroup" ->
                Next_(HandleSkill(w, "skill_set.unlock_skill_group", msg.skill_group_type))

\* the world a step of the system works on; what the step before sent to the
\* client, asked of the character loader and written to the block changes and
\* the skill set has left the system
World ==
    [client |-> [sv_client EXCEPT !.outbox = <<>>], ecs |-> sv_ecs,
     run |-> [sv_run EXCEPT !.loads = <<>>, !.calls = <<>>]]

\* bound: the messages handled for the client in one run
MaxRecv == 2
\* bound: the time after which the client sends nothing more
MaxActive == 6
\* settings.client_timeout.as_secs()
ClientTimeout == 4
\* the time between two runs, in the seconds the timeout is counted in: the
\* system runs when the server ticks, and nothing bounds the time between two
\* ticks, which may be longer than the timeout
RunPeriods == 0..(ClientTimeout + 1)
MaxVd == 2
ViewDistances == {MaxVd - 1, MaxVd, MaxVd + 1}

\* the messages of the client the model sends
StateMsgs ==
    {[kind |-> k] : k \in {"ExitIngame", "Spectate"}}
    \cup {[kind |-> "Character", character_id |-> 1]}
    \cup {[kind |-> "Register", view_distance |-> v, login_ok |-> l, valid |-> ok,
           admin |-> FALSE] :
            v \in {None, Some(MaxVd + 1)},
            l \in BOOLEAN, ok \in BOOLEAN}
    \cup {[kind |-> "Register", view_distance |-> None, login_ok |-> TRUE, valid |-> TRUE,
           admin |-> TRUE]}
    \cup {[kind |-> "SetViewDistance", vd |-> v] : v \in ViewDistances}
ControlMsgs ==
    {[kind |-> "ControllerInputs", inputs |-> 1]}
    \cup {[kind |-> "ControlEvent", event |-> e] : e \in {"Respawn", "Jump"}}
    \cup {[kind |-> "ControlAction", event |-> "Wield"]}
    \cup {[kind |-> "PlayerPhysics", pos |-> 1, vel |-> 1, ori |-> 1]}
PingMsgs == {[kind |-> k] : k \in {"Ping", "Pong", "Disconnect", "Terminate"}}
ClientMsgs == StateMsgs \cup ControlMsgs \cup PingMsgs
\* the keys of the chunks the client asks for: the loaded one, and one that is
\* within the view distance of a player at the origin from view distance 3 on
ChunkKeys == {0, 5}
\* the messages that ask for the terrain, the blocks, the characters of the
\* player and the skills
WorldMsgs ==
    {[kind |-> "BreakBlock", pos |-> p] : p \in {k * RECT_SIZE : k \in ChunkKeys}}
    \cup {[kind |-> "PlaceBlock", pos |-> 0, block |-> "block"]}
    \cup {[kind |-> "TerrainChunkRequest", key |-> k] : k \in ChunkKeys}
    \cup {[kind |-> "RequestCharacterList"]}
    \cup {[kind |-> "CreateCharacter", alias |-> "alias", alias_ok |-> ok] :
            ok \in BOOLEAN}
    \cup {[kind |-> "DeleteCharacter", character_id |-> 1]}
    \cup {[kind |-> "UnlockSkill", skill |-> "skill"],
          [kind |-> "RefundSkill", skill |-> "skill"],
          [kind |-> "UnlockSkillGroup", skill_group_type |-> "group"]}
\* the chat messages of the client: plain ones, commands, a lone slash, the
\* empty one, and one byte too long
ChatTexts ==
    {<<>>, <<"/">>, <<"/", "w">>, <<"h">>, <<"h", "/">>,
     [i \in 1..MaxChatBytes |-> "h"],
     [i \in 1..(MaxChatBytes + 1) |-> "h"],
     [i \in 1..(MaxChatBytes + 1) |-> IF i = 1 THEN "/" ELSE "w"]}
ChatMsgs == {[kind |-> "ChatMsg", message |-> t] : t \in ChatTexts}
\* the requests that take a client from Connected into the game, as a
\* character or as a spectator, with a view distance or without one
EnterMsgs ==
    {[kind |-> "Character", character_id |-> 1], [kind |-> "Spectate"]}
    \cup {[kind |-> "Register", view_distance |-> v, login_ok |-> TRUE, valid |-> TRUE,
           admin |-> FALSE] : v \in {None, Some(MaxVd + 1)}}

NewRun ==
    [pc |-> "idle", cnt |-> 0, msg |-> "None", network_err |-> FALSE,
     disconnected |-> "None", events |-> <<>>,
     new_players |-> <<>>, new_chat_msgs |-> <<>>, loads |-> <<>>, calls |-> <<>>,
     chunks_request_dropped |-> 0, chunks_served_from_memory |-> 0,
     chunks_generation_triggered |-> 0]

\* an entity that has a Client component and nothing else
NoComponents ==
    [player |-> None, admin |-> FALSE, controller |-> None, pos |-> None, vel |-> None,
     ori |-> None, force_update |-> FALSE, stats |-> "None", uid |-> TRUE,
     can_build |-> FALSE]

IdleServer ==
    /\ sv_client =
            [client_state |-> "Connected", login_msg_sent |-> FALSE, last_ping |-> 0,
             outbox |-> <<>>]
    /\ sv_ecs = NoComponents
    /\ sv_run = NewRun
    /\ sv_time = 0
    /\ sv_settings = [max_view_distance |-> None, server_description |-> ""]
    /\ sv_hist = [online |-> 0, pinged |-> FALSE, late |-> FALSE]
    /\ sv_silent = FALSE
    /\ sv_gone = FALSE

\* the servers and clients the model starts from: the client's state, whether
\* its entity has a Uid, the settings max_view_distance and server_description,
\* whether its entity has CanBuild
ServerScenarios ==
    {<<"Connected", TRUE, Some(MaxVd), "welcome", TRUE>>,
     <<"Connected", FALSE, None, "", FALSE>>,
     <<"Pending", TRUE, Some(MaxVd), "", FALSE>>}

\* a client has connected
InitServer ==
    /\ \E sc \in ServerScenarios :
            /\ sv_client =
                    [client_state |-> sc[1], login_msg_sent |-> FALSE, last_ping |-> 0,
                     outbox |-> <<>>]
            /\ sv_ecs = [NoComponents EXCEPT !.uid = sc[2], !.can_build = sc[5]]
            /\ sv_settings = [max_view_distance |-> sc[3], server_description |-> sc[4]]
    /\ sv_run = NewRun
    /\ sv_time = 0
    /\ sv_hist = [online |-> 0, pinged |-> FALSE, late |-> FALSE]
    /\ sv_silent = FALSE
    /\ sv_gone = FALSE

\* Sys::run begins for the client, dt after the run before
SvBeginRun(dt) ==
    /\ sv_run.pc = "idle"
    /\ ~sv_gone
    /\ sv_time' = sv_time + dt
    /\ sv_run' = [NewRun EXCEPT !.pc = "recv"]
    /\ sv_client' = [sv_client EXCEPT !.outbox = <<>>]
    /\ sv_hist' = [sv_hist EXCEPT !.late = @ \/ 2 * dt > ClientTimeout]
    /\ UNCHANGED <<sv_ecs, sv_settings, sv_silent, sv_gone, notServer>>

\* the number of Online messages in a list of chat messages
Onlines(chat) == Cardinality({i \in 1..Len(chat) : chat[i].chat_type = "Online"})

\* client.recv() returns a message and the loop of handle_client_msg handles it
SvRecv(msg) ==
    /\ sv_run.pc = "recv"
    /\ ~sv_silent
    /\ sv_time <= MaxActive
    /\ sv_run.cnt < MaxRecv
    /\ LET r == handle_client_msg(World, msg, sv_settings)
       IN  /\ sv_client' = r.w.client
           /\ sv_ecs' = r.w.ecs
           /\ sv_run' = [r.w.run EXCEPT !.pc = IF r.flow = "break" THEN "settle" ELSE "recv"]
           /\ sv_hist' =
                [sv_hist EXCEPT !.online =
                    @ + Onlines(r.w.run.new_chat_msgs) - Onlines(sv_run.new_chat_msgs)]
    /\ UNCHANGED <<sv_time, sv_settings, sv_silent, sv_gone, notServer>>

\* client.recv() fails: handle_client_msg returns the error
SvRecvError ==
    /\ sv_run.pc = "recv"
    /\ sv_run' = [World.run EXCEPT !.network_err = TRUE, !.pc = "settle"]
    /\ sv_client' = World.client
    /\ UNCHANGED <<sv_ecs, sv_time, sv_settings, sv_hist, sv_silent, sv_gone,
                   notServer>>

\* the Delay of the select! ends the handling while recv() waits
SvDelay ==
    /\ sv_run.pc = "recv"
    /\ sv_run' = [World.run EXCEPT !.pc = "settle"]
    /\ sv_client' = World.client
    /\ UNCHANGED <<sv_ecs, sv_time, sv_settings, sv_hist, sv_silent, sv_gone,
                   notServer>>

\* mutant: the timeout is looked at before the messages received
MutSettlePing(w, time) ==
    IF time - w.client.last_ping > ClientTimeout THEN disconnect(w, "timeout")
    ELSE IF w.run.cnt > 0 THEN [w EXCEPT !.client.last_ping = time]
    ELSE IF w.run.network_err THEN disconnect(w, "network_error")
    ELSE IF 2 * (time - w.client.last_ping) > ClientTimeout
         THEN notify(w, [kind |-> "Ping"])
    ELSE w

\* Sys::run, "Update client ping": the first branch that applies; the last
\* compares with client_timeout.as_secs() as f64 * 0.5
SettlePing(w, time) ==
    IF w.run.cnt > 0 THEN [w EXCEPT !.client.last_ping = time]
    ELSE IF time - w.client.last_ping > ClientTimeout THEN disconnect(w, "timeout")
    ELSE IF w.run.network_err THEN disconnect(w, "network_error")
    ELSE IF 2 * (time - w.client.last_ping) > ClientTimeout
         THEN notify(w, [kind |-> "Ping"])
    ELSE w

\* Client::is_registered
is_registered(client) == client.client_state \in {"Registered", "Spectator", "Character"}

\* Sys::run, "Handle new players": every registered client is told of them
NotifyNewPlayers(w) ==
    IF w.run.new_players # <<>> /\ w.ecs.uid /\ w.ecs.player # None
          /\ is_registered(w.client)
    THEN notify(w, [kind |-> "PlayerListAdd"])
    ELSE w

\* str::starts_with("/")
IsCommand(message) == message # <<>> /\ Head(message) = "/"

\* mutant: a command is sent on as a chat message as well
MutChatEvents(entity, msg) ==
    IF IsCommand(msg.message) /\ entity # None /\ Len(msg.message) > 1
    THEN <<[kind |-> "ChatCmd", entity |-> entity[1], argv |-> Tail(msg.message)],
           [kind |-> "Chat", msg |-> msg]>>
    ELSE <<[kind |-> "Chat", msg |-> msg]>>

\* Sys::run, "Handle new chat messages": the events one queued message becomes
ChatEvents(entity, msg) ==
    IF IsCommand(msg.message)
    THEN IF entity # None /\ Len(msg.message) > 1
         THEN <<[kind |-> "ChatCmd", entity |-> entity[1], argv |-> Tail(msg.message)]>>
         ELSE <<>>
    ELSE <<[kind |-> "Chat", msg |-> msg]>>

RECURSIVE EmitChat(_, _)
\* Sys::run, "Handle new chat messages": for (entity, msg) in new_chat_msgs
EmitChat(w, chat) ==
    IF chat = <<>> THEN w
    ELSE EmitChat([w EXCEPT !.run.events =
                        @ \o ChatEvents(Head(chat).entity,
                                        [chat_type |-> Head(chat).chat_type,
                                         message |-> Head(chat).message])],
                  Tail(chat))

\* the rest of Sys::run once the client's messages are handled
SvSettle ==
    /\ sv_run.pc = "settle"
    /\ LET w1 == SettlePing(World, sv_time)
           w2 == NotifyNewPlayers(w1)
           w3 == EmitChat(w2, w2.run.new_chat_msgs)
       IN  /\ sv_client' = w3.client
           /\ sv_ecs' = w3.ecs
           /\ sv_run' = [w3.run EXCEPT !.pc = "events"]
           /\ sv_hist' =
                [sv_hist EXCEPT !.pinged =
                    IF sv_run.cnt > 0 THEN FALSE
                    ELSE @ \/ \E i \in 1..Len(w3.client.outbox) :
                                w3.client.outbox[i].kind = "Ping",
                                !.late = IF sv_run.cnt > 0 THEN FALSE ELSE @]
    /\ UNCHANGED <<sv_time, sv_settings, sv_silent, sv_gone, notServer>>

\* the components of a character that has entered the game
InGame(ecs) ==
    [ecs EXCEPT !.controller = Some([inputs |-> 0, events |-> <<>>, actions |-> <<>>]),
                !.pos = Some(0), !.vel = Some(0), !.ori = Some(0), !.stats = "Alive"]

\* the components that are left when the character leaves the game
OutOfGame(ecs) ==
    [ecs EXCEPT !.controller = None, !.pos = None, !.vel = None, !.ori = None,
                !.stats = "None", !.force_update = FALSE]

\* the controller once the systems of the tick have taken its events and actions
Drained(ecs) ==
    IF ecs.controller = None THEN ecs
    ELSE [ecs EXCEPT !.controller = Some([@[1] EXCEPT !.events = <<>>, !.actions = <<>>])]

\* the systems that run after message::Sys handle the events it emitted: the
\* character enters or leaves the game, the client is removed
SvOtherSystems ==
    /\ sv_run.pc = "events"
    /\ LET has(e) == \E i \in 1..Len(sv_run.events) : sv_run.events[i].kind = e
           st == CASE has("ExitIngame") -> "Registered"
                   [] has("InitCharacterData") -> "Character"
                   [] OTHER -> sv_client.client_state
       IN  /\ sv_gone' = has("ClientDisconnect")
           /\ sv_client' = [World.client EXCEPT !.client_state = st]
           /\ sv_ecs' =
                CASE has("ExitIngame") -> OutOfGame(sv_ecs)
                  [] has("InitCharacterData") -> InGame(sv_ecs)
                  [] OTHER -> Drained(sv_ecs)
    /\ sv_run' = NewRun
    /\ UNCHANGED <<sv_time, sv_settings, sv_hist, sv_silent, notServer>>

\* the game between two runs: the character dies or lives, a forced update of
\* its position is pending or not
SvGameplay(stats, force_update) ==
    /\ sv_run.pc = "idle"
    /\ ~sv_gone
    /\ sv_ecs.stats # "None"
    /\ <<stats, force_update>> # <<sv_ecs.stats, sv_ecs.force_update>>
    /\ sv_ecs' = [sv_ecs EXCEPT !.stats = stats, !.force_update = force_update]
    /\ UNCHANGED <<sv_client, sv_run, sv_time, sv_settings, sv_hist, sv_silent, sv_gone,
                   notServer>>

\* the client sends nothing from now on
SvGoSilent ==
    /\ sv_run.pc = "idle"
    /\ ~sv_gone
    /\ ~sv_silent
    /\ sv_silent' = TRUE
    /\ UNCHANGED <<sv_client, sv_ecs, sv_run, sv_time, sv_settings, sv_hist, sv_gone,
                   notServer>>

(***************************************************************************)
(* CharacterAbility::requirements_paid.                                    *)
(***************************************************************************)
CharacterAbilities ==
    {"BasicMelee", "BasicRanged", "CastFireball", "Boost", "DashMelee", "BasicBlock",
     "Roll", "TimedCombo", "TripleStrike"}

ROLL_COST == 200
DASH_MELEE_COST == 300
CAST_FIREBALL_COST == 500

\* Energy::try_change_by: Err when the change would leave the range
\* 0..maximum, else the change is made
try_change_by(energy, amount) ==
    IF energy.current + amount < 0 \/ energy.current + amount > energy.maximum
    THEN [ok |-> FALSE, energy |-> energy]
    ELSE [ok |-> TRUE, energy |-> [energy EXCEPT !.current = @ + amount]]

\* a && b, where b is evaluated only when a holds and may take energy
AndThen(a, energy, amount) ==
    IF a THEN try_change_by(energy, amount) ELSE [ok |-> FALSE, energy |-> energy]

\* mutant: the energy is taken before the physics is looked at
MutRequirementsPaid(ability, data, energy) ==
    LET paid(cost) == try_change_by(energy, 0 - cost)
    IN  CASE ability = "Roll" ->
                [paid(ROLL_COST) EXCEPT !.ok =
                    @ /\ data.on_ground /\ ~data.in_fluid /\ data.is_humanoid]
          [] ability = "DashMelee" -> [paid(DASH_MELEE_COST) EXCEPT !.ok = @ /\ ~data.in_fluid]
          [] ability = "CastFireball" ->
                [paid(CAST_FIREBALL_COST) EXCEPT !.ok = @ /\ ~data.in_fluid]
          [] OTHER -> [ok |-> TRUE, energy |-> energy]

\* CharacterAbility::requirements_paid(&self, data, update): what it returns
\* and the energy of update after it
requirements_paid(ability, data, energy) ==
    CASE ability = "Roll" ->
            AndThen(data.on_ground /\ ~data.in_fluid /\ data.is_humanoid,
                    energy, 0 - ROLL_COST)
      [] ability = "DashMelee" -> AndThen(~data.in_fluid, energy, 0 - DASH_MELEE_COST)
      [] ability = "CastFireball" -> AndThen(~data.in_fluid, energy, 0 - CAST_FIREBALL_COST)
      [] OTHER -> [ok |-> TRUE, energy |-> energy]

\* bound: the maximum of the character's energy
MaxEnergy == 1000
\* the energies a character starts with: around every cost
EnergySamples ==
    {0, ROLL_COST - 1, ROLL_COST, DASH_MELEE_COST - 1, DASH_MELEE_COST,
     CAST_FIREBALL_COST - 1, CAST_FIREBALL_COST, MaxEnergy}
\* what requirements_paid reads of the JoinData
JoinDatas == [on_ground : BOOLEAN, in_fluid : BOOLEAN, is_humanoid : BOOLEAN]

NoCall == [ability |-> "None"]

IdleAbility ==
    /\ ab_energy = [current |-> 0, maximum |-> 0]
    /\ ab_call = NoCall

InitAbility ==
    /\ \E e \in EnergySamples : ab_energy = [current |-> e, maximum |-> MaxEnergy]
    /\ ab_call = NoCall

\* the character tries to use an ability
AbRequirementsPaid(ability, data) ==
    /\ LET r == requirements_paid(ability, data, ab_energy)
       IN  /\ ab_energy' = r.energy
           /\ ab_call' = [ability |-> ability, data |-> data, before |-> ab_energy.current,
                          returned |-> r.ok]
    /\ UNCHANGED notAbility

(***************************************************************************)
(* The ComboMelee character state (states::combo_melee).                   *)
(***************************************************************************)
\* a * b of two u32: the product's low 32 bits, and whether it exceeds them
MulU32(a, b) ==
    LET p == Mul(a \o Zero(U32_BITS), b \o Zero(U32_BITS))
    IN  [bits |-> SubSeq(p, 1, U32_BITS),
         overflow |-> \E i \in (U32_BITS + 1)..(2 * U32_BITS) : p[i] = 1]

\* a + b of two u32, likewise
AddU32(a, b) == [bits |-> WrappingAdd(a, b), overflow |-> AddOverflows(a, b)]

\* u32::min of a configured maximum below 2^31 and a u32: a number
MinU32(max, bits) == IF LessEq(U32(max), bits) THEN max ELSE FromBits(bits)

\* base_damage + combo / num_stages * damage_increase, in u32
DamageSum(self) ==
    LET st == self.stage_data[self.stage]
        m == MulU32(U32(self.combo \div self.num_stages), U32(st.damage_increase))
        a == AddU32(U32(st.base_damage), m.bits)
    IN  [bits |-> a.bits, overflow |-> m.overflow \/ a.overflow]

\* mutant: every stage is capped by the maximum of the first
MutHitDamage(self) == MinU32(self.stage_data[1].max_damage, DamageSum(self).bits)

\* the damage of the hit attempt: max_damage.min(..), the number base_healthchange
\* is the negative of
HitDamage(self) == MinU32(self.stage_data[self.stage].max_damage, DamageSum(self).bits)

\* initial_energy_gain + combo * energy_increase, in u32
EnergySum(self) ==
    LET m == MulU32(U32(self.combo), U32(self.energy_increase))
        a == AddU32(U32(self.initial_energy_gain), m.bits)
    IN  [bits |-> a.bits, overflow |-> m.overflow \/ a.overflow]

\* max_energy_gain.min(..) as i32
EnergyGain(self) == MinU32(self.max_energy_gain, EnergySum(self).bits)

\* Energy::change_by: the new current energy stays within 0..maximum
change_by(energy, amount) ==
    [energy EXCEPT !.current =
        IF @ + amount < 0 THEN 0 ELSE IF @ + amount > energy.maximum THEN energy.maximum
        ELSE @ + amount]

\* the branch of behavior the state is in
ComboBranch(self, data) ==
    LET st == self.stage_data[self.stage]
    IN  CASE self.stage_section = "Buildup" /\ self.timer < st.base_buildup_duration ->
                "Build up"
          [] self.stage_section = "Buildup" -> "Hit attempt"
          [] self.stage_section = "Recover" /\ self.timer < st.base_recover_duration ->
                "Recovering"
          [] self.stage_section = "Recover" -> "Recovered"
          [] self.stage_section = "Combo" /\ self.timer < self.combo_duration ->
                IF data.pressed THEN "Next stage" ELSE "Waiting"
          [] OTHER -> "Done"

\* whether the hit of the attack the call sees has landed
Landed(data) ==
    data.attacking # <<>> /\ data.attacking[1].applied /\ data.attacking[1].hit_count > 0

\* whether an addition or multiplication of the call exceeds u32
ComboOverflows(self, data) ==
    \/ ComboBranch(self, data) = "Hit attempt" /\ DamageSum(self).overflow
    \/ Landed(data) /\ EnergySum(self).overflow

\* Data::behavior in a build that wraps: the character state of the update,
\* the Attacking component once the updater has run, the energy of the update
behavior(self, data) ==
    LET branch == ComboBranch(self, data)
        character ==
            CASE branch \in {"Build up", "Recovering", "Waiting"} ->
                    [self EXCEPT !.timer = @ + data.dt]
              [] branch = "Hit attempt" ->
                    [self EXCEPT !.timer = 0, !.stage_section = "Recover"]
              [] branch = "Recovered" ->
                    [self EXCEPT !.timer = 0, !.stage_section = "Combo"]
              [] branch = "Next stage" ->
                    [self EXCEPT !.stage = (self.stage % self.num_stages) + 1,
                                 !.combo = @ + 1, !.timer = 0,
                                 !.stage_section = "Buildup"]
              [] OTHER -> [self EXCEPT !.stage_section = "Wielding"]
        attack1 ==
            CASE branch = "Hit attempt" ->
                    <<[base_healthchange |-> 0 - HitDamage(self), applied |-> FALSE,
                       hit_count |-> 0]>>
              [] branch = "Done" -> <<>>
              [] OTHER -> data.attacking
    IN  [character |-> character,
         attacking |-> IF Landed(data) THEN <<>> ELSE attack1,
         energy |-> IF Landed(data) THEN change_by(data.energy, EnergyGain(self))
                    ELSE data.energy,
         branch |-> branch,
         granted |-> IF Landed(data) THEN EnergyGain(self) ELSE NoInt]

\* bound: the strikes of a combo the model follows
MaxCombo == 4
\* bound: the maximum of the character's energy in a combo
MaxComboEnergy == 200

\* the abilities the model fights with: a two-stage combo, and a one-stage combo
\* whose scaling exceeds u32 at the fourth strike
ComboConfigs ==
    {[num_stages |-> 2,
      stage_data |-> <<[base_damage |-> 100, max_damage |-> 120, damage_increase |-> 30,
                        base_buildup_duration |-> 1, base_recover_duration |-> 1],
                       [base_damage |-> 80, max_damage |-> 90, damage_increase |-> 20,
                        base_buildup_duration |-> 1, base_recover_duration |-> 0]>>,
      initial_energy_gain |-> 10, max_energy_gain |-> 60, energy_increase |-> 20,
      combo_duration |-> 1],
     [num_stages |-> 1,
      stage_data |-> <<[base_damage |-> 1, max_damage |-> 2147483647,
                        damage_increase |-> 1073741824,
                        base_buildup_duration |-> 0, base_recover_duration |-> 0]>>,
      initial_energy_gain |-> 1, max_energy_gain |-> 5, energy_increase |-> 1073741824,
      combo_duration |-> 1]}

NoData == [stage_section |-> "None"]
NoLast == [branch |-> "None"]

IdleCombo ==
    /\ cm_data = NoData
    /\ cm_attacking = <<>>
    /\ cm_energy = [current |-> 0, maximum |-> 0]
    /\ cm_last = NoLast

\* the character has begun a combo: CharacterState::ComboMelee at stage 1
InitCombo ==
    /\ \E c \in ComboConfigs :
            cm_data = [stage |-> 1, num_stages |-> c.num_stages, combo |-> 0,
                       stage_data |-> c.stage_data,
                       initial_energy_gain |-> c.initial_energy_gain,
                       max_energy_gain |-> c.max_energy_gain,
                       energy_increase |-> c.energy_increase,
                       combo_duration |-> c.combo_duration,
                       timer |-> 0, stage_section |-> "Buildup"]
    /\ cm_attacking = <<>>
    /\ cm_energy = [current |-> 0, maximum |-> MaxComboEnergy]
    /\ cm_last = NoLast

\* the character is in the combo and the server has not stopped
ComboRuns ==
    /\ cm_data.stage_section \in {"Buildup", "Recover", "Combo"}
    /\ cm_last.branch # "Panic"

\* the character behaviour system calls behavior and applies the update
CmBehavior(pressed) ==
    /\ ComboRuns
    /\ cm_data.combo < MaxCombo \/ ~pressed
    /\ LET data == [pressed |-> pressed, attacking |-> cm_attacking, energy |-> cm_energy,
                    dt |-> 1]
           r == behavior(cm_data, data)
       IN  /\ cm_data' = r.character
           /\ cm_attacking' = r.attacking
           /\ cm_energy' = r.energy
           /\ cm_last' = [branch |-> r.branch, combo |-> cm_data.combo,
                          stage |-> cm_data.stage, seen |-> cm_attacking,
                          granted |-> r.granted]
    /\ UNCHANGED notCombo

\* the same call in a build with overflow checks, when a sum or product of
\* the call exceeds u32: the call panics
CmBehaviorPanic(pressed) ==
    /\ ComboRuns
    /\ ComboOverflows(cm_data, [pressed |-> pressed, attacking |-> cm_attacking])
    /\ cm_last' = [branch |-> "Panic"]
    /\ UNCHANGED <<cm_data, cm_attacking, cm_energy, notCombo>>

\* the combat system applies the attack: it hits hit_count entities
CmCombat(hit_count) ==
    /\ ComboRuns
    /\ cm_attacking # <<>>
    /\ ~cm_attacking[1].applied
    /\ cm_attacking' = <<[cm_attacking[1] EXCEPT !.applied = TRUE, !.hit_count = hit_count]>>
    /\ UNCHANGED <<cm_data, cm_energy, cm_last, notCombo>>

IdleApp ==
    IdleMetrics /\ IdlePid /\ IdleClient /\ IdleServer /\ IdleAbility /\ IdleCombo

(***************************************************************************)
(* The specifications.                                                     *)
(***************************************************************************)
InitSidSpec ==
    /\ feature_compression = FALSE
    /\ InitSid
    /\ IdleCodec
    /\ IdlePromises
    /\ IdleChan
    /\ IdleTeardown
    /\ IdleMux
    /\ IdleSend
    /\ IdleDelivery
    /\ IdleSched
    /\ IdleApp

NextSid ==
    \/ \E p \in Peers : OpenStreamLocal(p)
    \/ \E p \in Peers : OpenStreamOverflowPanic(p)
    \/ \E p \in Peers : OpenStreamOverflowWrap(p)

SpecSid == InitSidSpec /\ [][NextSid]_vars

InitCodecSpec ==
    /\ feature_compression \in BOOLEAN
    /\ IdleSid
    /\ IdleCodec
    /\ IdlePromises
    /\ IdleChan
    /\ IdleTeardown
    /\ IdleMux
    /\ IdleSend
    /\ IdleDelivery
    /\ IdleSched
    /\ IdleApp

NextCodec ==
    \/ \E f \in SampleFrames(feature_compression) : WriteFrame(f)
    \/ \E k \in ChunkSizes : Deliver(k)
    \/ DecodeShort
    \/ DecodeFixed
    \/ DecodeHead
    \/ ReadPayload

SpecCodec == InitCodecSpec /\ [][NextCodec]_vars

NextOpenStream == \E buf \in OpenStreamBufs : GenOpenStream(buf)

\* Frame::gen_open_stream on the buffers a caller may hold, in either build
SpecOpenStream == InitCodecSpec /\ [][NextOpenStream]_vars

InitPromisesSpec ==
    /\ feature_compression \in BOOLEAN
    /\ IdleSid
    /\ IdleCodec
    /\ IdlePromises
    /\ IdleChan
    /\ IdleTeardown
    /\ IdleMux
    /\ IdleSend
    /\ IdleDelivery
    /\ IdleSched
    /\ IdleApp

NextPromises ==
    \/ \E s \in Streams, name \in FlagNames(feature_compression) : PromisesInsert(s, name)
    \/ \E s \in Streams, name \in FlagNames(feature_compression) : PromisesRemove(s, name)

SpecPromises == InitPromisesSpec /\ [][NextPromises]_vars

InitChanSpec ==
    /\ feature_compression = FALSE
    /\ IdleSid
    /\ IdleCodec
    /\ IdlePromises
    /\ InitChan
    /\ IdleTeardown
    /\ IdleMux
    /\ IdleSend
    /\ IdleDelivery
    /\ IdleSched
    /\ IdleApp

NextChan ==
    \/ \E c \in Chans : Connect(c)
    \/ \E c \in Chans, buf \in HandshakeBufs : RecvHandshakeMatch(c, buf)
    \/ \E c \in Chans, buf \in HandshakeBufs : RecvHandshakeMismatch(c, buf)
    \/ \E c \in Chans, buf \in InitBufs : RecvInit(c, buf)
    \/ \E c \in Chans, buf \in InitBufs : RecvInitAuthFailure(c, buf)
    \/ \E c \in Chans, kind \in {"Handshake", "Init"} : RecvUnexpected(c, kind)
    \/ \E c \in Chans, kind \in StreamFrameKinds : RecvStreamFrame(c, kind)
    \/ \E c \in Chans, kind \in StreamFrameKinds : RecvStreamFrameEarly(c, kind)
    \/ \E c \in Chans : RecvShutdown(c)
    \/ \E c \in Chans : FinishShutdown(c)
    \/ \E c \in Chans : IoFailure(c)

SpecChan == InitChanSpec /\ [][NextChan]_vars

InitTeardownSpec ==
    /\ feature_compression = FALSE
    /\ IdleSid
    /\ IdleCodec
    /\ IdlePromises
    /\ IdleChan
    /\ InitTeardown
    /\ IdleMux
    /\ IdleSend
    /\ IdleDelivery
    /\ IdleSched
    /\ IdleApp

NextTeardown ==
    \/ \E c \in Chans, t \in Tasks : TdTransfer(c, t)
    \/ \E c \in Chans : TdRecvShutdown(c)
    \/ \E c \in Chans : TdFlushed(c)
    \/ \E c \in Chans, t \in Tasks : TdIoFailure(c, t)
    \/ \E c \in Chans, t \in Tasks : TdClose(c, t)
    \/ \E c \in Chans, t \in Tasks : TdSurface(c, t)
    \/ \E c \in Chans, t \in Tasks : TdDetach(c, t)
    \/ \E c \in Chans, t \in Tasks : TdParticipantTeardown(c, t)

SpecTeardown == InitTeardownSpec /\ [][NextTeardown]_vars

InitMuxSpec ==
    /\ feature_compression = FALSE
    /\ IdleSid
    /\ IdleCodec
    /\ IdlePromises
    /\ IdleChan
    /\ IdleTeardown
    /\ InitMux
    /\ IdleSend
    /\ IdleDelivery
    /\ IdleSched
    /\ IdleApp

NextMux ==
    \/ \E i \in DOMAIN MuxPool : MuxOpenStream(i)
    \/ \E i \in DOMAIN MuxPool : MuxCloseStream(i)
    \/ \E i \in DOMAIN MuxPool : MuxDataHeader(i)
    \/ \E i \in DOMAIN MuxPool : MuxData(i)

SpecMux == InitMuxSpec /\ [][NextMux]_vars

InitSendSpec ==
    /\ feature_compression = FALSE
    /\ IdleSid
    /\ IdleCodec
    /\ IdlePromises
    /\ IdleChan
    /\ IdleTeardown
    /\ IdleMux
    /\ InitSend
    /\ IdleDelivery
    /\ IdleSched
    /\ IdleApp

NextSend ==
    \/ \E mid \in {U64(1), MidB}, sid \in {SidA, SidB}, len \in SendLengths :
            SendHeader(mid, sid, len)
    \/ SendData
    \/ SendDone

SpecSend == InitSendSpec /\ [][NextSend]_vars

InitDeliverySpec ==
    /\ feature_compression = FALSE
    /\ IdleSid
    /\ IdleCodec
    /\ IdlePromises
    /\ IdleChan
    /\ IdleTeardown
    /\ IdleMux
    /\ IdleSend
    /\ InitDelivery
    /\ IdleSched
    /\ IdleApp

NextDelivery ==
    \/ \E m \in Msgs : DlSubmit(m)
    \/ \E m \in Msgs : DlDamage(m)
    \/ \E m \in Msgs : DlComplete(m)
    \/ DlCloseStream
    \/ DlIoFailure
    \/ DlRecvShutdown
    \/ DlFinishShutdown

\* what becomes of a message in flight: the transport is a reliable byte
\* channel, so its frames arrive and the receive task completes it, unless the
\* connection fails
DlSettle(m) == DlComplete(m) \/ (InFlight(m) /\ DlIoFailure)

\* the transport delivers what was written or fails, the receive task keeps
\* handling the frames that have arrived, and a graceful shutdown that can
\* finish does
SpecDelivery ==
    /\ InitDeliverySpec
    /\ [][NextDelivery]_vars
    /\ \A m \in Msgs : WF_vars(DlSettle(m))
    /\ WF_vars(DlFinishShutdown)

InitSchedSpec ==
    /\ feature_compression = FALSE
    /\ IdleSid
    /\ IdleCodec
    /\ IdlePromises
    /\ IdleChan
    /\ IdleTeardown
    /\ IdleMux
    /\ IdleSend
    /\ IdleDelivery
    /\ InitSched
    /\ IdleApp

SchedulerStep == (\E s \in SchedStreams : SchWrite(s)) \/ SchRefill

NextSched ==
    \/ \E s \in SchedStreams : SchSubmit(s)
    \/ \E s \in SchedStreams : SchWrite(s)
    \/ SchRefill

\* the scheduler keeps running while it has something to do; nothing is
\* assumed of the streams that submit
SpecSched == InitSchedSpec /\ [][NextSched]_vars /\ WF_vars(SchedulerStep)

InitAllIdle ==
    /\ feature_compression = FALSE
    /\ IdleSid
    /\ IdleCodec
    /\ IdlePromises
    /\ IdleChan
    /\ IdleTeardown
    /\ IdleMux
    /\ IdleSend
    /\ IdleDelivery
    /\ IdleSched
    /\ IdleApp

NextMetrics ==
    \/ \E frame \in MetricFrames : MetGetInt(frame)
    \/ \E frame \in MetricFrames : MetGetString(frame)
    \/ \E i \in Byte : MetIntToString(i)

SpecMetrics == InitAllIdle /\ [][NextMetrics]_vars

NextPid ==
    \/ \E p \in SamplePids : PidNew(p)
    \/ \E pid_offset \in FakeOffsets : PidFake(pid_offset)
    \/ PidFormat

SpecPid == InitAllIdle /\ [][NextPid]_vars

InitServerSpec ==
    /\ feature_compression = FALSE
    /\ IdleSid
    /\ IdleCodec
    /\ IdlePromises
    /\ IdleChan
    /\ IdleTeardown
    /\ IdleMux
    /\ IdleSend
    /\ IdleDelivery
    /\ IdleSched
    /\ IdleMetrics
    /\ IdlePid
    /\ IdleClient
    /\ InitServer
    /\ IdleAbility
    /\ IdleCombo

NextServer ==
    \/ \E dt \in {0} : SvBeginRun(dt)
    \/ \E msg \in StateMsgs \cup ControlMsgs : SvRecv(msg)
    \/ SvRecvError
    \/ SvDelay
    \/ SvSettle
    \/ SvOtherSystems
    \/ \E stats \in {"Alive", "Dead"}, force_update \in BOOLEAN : SvGameplay(stats, force_update)

\* the message system under the messages that ask for a state or act in the
\* game, all within the second the client connected in
SpecServer == InitServerSpec /\ [][NextServer]_vars

\* the end of the handling of the client's messages in a run
SvEndRecv == SvDelay \/ SvRecvError
\* a run after the clock has moved on
SvLaterRun == \E dt \in RunPeriods \ {0} : SvBeginRun(dt)

NextServerPing ==
    \/ \E dt \in RunPeriods : SvBeginRun(dt)
    \/ \E msg \in PingMsgs : SvRecv(msg)
    \/ SvRecvError
    \/ SvDelay
    \/ SvSettle
    \/ SvOtherSystems
    \/ SvGoSilent

\* the message system over time, under the messages that ask for no state: the
\* server keeps running its systems and its clock keeps moving
SpecServerPing ==
    /\ InitServerSpec
    /\ [][NextServerPing]_vars
    /\ WF_vars(SvEndRecv)
    /\ WF_vars(SvSettle)
    /\ WF_vars(SvOtherSystems)
    /\ SF_vars(SvLaterRun)

NextServerChat ==
    \/ SvBeginRun(0)
    \/ \E msg \in ChatMsgs \cup EnterMsgs \cup WorldMsgs : SvRecv(msg)
    \/ SvRecvError
    \/ SvDelay
    \/ SvSettle
    \/ SvOtherSystems

\* the message system under the chat messages and the requests for the world
\* of a client that registers and enters the game
SpecServerChat == InitServerSpec /\ [][NextServerChat]_vars

NextAbility ==
    \E ability \in CharacterAbilities, data \in JoinDatas : AbRequirementsPaid(ability, data)

InitAbilitySpec ==
    /\ feature_compression = FALSE
    /\ IdleSid /\ IdleCodec /\ IdlePromises /\ IdleChan /\ IdleTeardown /\ IdleMux
    /\ IdleSend /\ IdleDelivery /\ IdleSched
    /\ IdleMetrics /\ IdlePid /\ IdleClient /\ IdleServer /\ InitAbility /\ IdleCombo

SpecAbility == InitAbilitySpec /\ [][NextAbility]_vars

NextCombo ==
    \/ \E pressed \in BOOLEAN : CmBehavior(pressed)
    \/ \E pressed \in BOOLEAN : CmBehaviorPanic(pressed)
    \/ \E hit_count \in 0..1 : CmCombat(hit_count)

InitComboSpec ==
    /\ feature_compression = FALSE
    /\ IdleSid /\ IdleCodec /\ IdlePromises /\ IdleChan /\ IdleTeardown /\ IdleMux
    /\ IdleSend /\ IdleDelivery /\ IdleSched
    /\ IdleMetrics /\ IdlePid /\ IdleClient /\ IdleServer /\ IdleAbility /\ InitCombo

SpecCombo == InitComboSpec /\ [][NextCombo]_vars

NextClient ==
    \/ ClWithTestState
    \/ \E uid \in ClientUids : ClGetOrCreateEntity(uid)
    \/ \E msgs \in MsgBatches, move_dir \in MoveDirs, dt \in TickPeriods :
            ClTick(msgs, [move_dir |-> move_dir], dt)
    \/ \E status \in {"Ok", "Network"}, move_dir \in MoveDirs, dt \in TickPeriods :
            ClTickQuiet(status, [move_dir |-> move_dir], dt)
    \/ ClStateMut
    \/ ClCleanup

\* Client::new leaves every variable of the client as the idle state has it
SpecClient == InitAllIdle /\ [][NextClient]_vars

\* the ids a peer has produced so far are offset_sid(p) + i for i < opened[p]:
\* id is one of them iff (id - offset) mod 2^64 < opened[p]
Produced(id, p) == Less(CntOfSid(WrappingSub(id, offset_sid(p))), opened[p])

\* Some stream id has been produced by both peers.  Both sets of produced ids
\* are arcs of the id circle, and two arcs meet iff one holds the other's start.
Collision ==
    /\ opened[1] # Cnt(0)
    /\ opened[2] # Cnt(0)
    /\ Produced(offset_sid(1), 2) \/ Produced(offset_sid(2), 1)

(***************************************************************************)
(* The claims.                                                             *)
(***************************************************************************)
\* bit j of the number whose little-endian bytes are given: bit j % 8 of byte j / 8
LEBit(bytes, j) == (bytes[(j \div 8) + 1] \div (2 ^ (j % 8))) % 2
\* bits is the number the bytes hold in little-endian order
IsLE(bits, bytes) ==
    /\ Len(bits) = 8 * Len(bytes)
    /\ \A j \in 0..(Len(bits) - 1) : bits[j + 1] = LEBit(bytes, j)

\* C1: while each peer has opened at most 2^63 streams, no stream id has been
\* produced by both peers.
C1_Original ==
    (LessEq(opened[1], TwoPow63) /\ LessEq(opened[2], TwoPow63)) => ~Collision

\* C2: the frame the receiver decodes from the bytes of an encoded frame
\* equals the encoded frame, for every kind of frame.
C2_RoundTrip == rx_result.kind \in FrameKinds => rx_result = tx_frame

C4_FixedLayouts ==
    LET b == rx_consumed
        f == rx_result
    IN  /\ f.kind = "Handshake" =>
            /\ Len(b) = 19
            /\ f.magic_number = Slice(b, 0, 7)
            /\ IsLE(f.version[1], Slice(b, 7, 11))
            /\ IsLE(f.version[2], Slice(b, 11, 15))
            /\ IsLE(f.version[3], Slice(b, 15, 19))
        /\ f.kind = "Init" =>
            /\ Len(b) = 32
            /\ IsLE(f.pid, Slice(b, 0, 16))
            /\ IsLE(f.secret, Slice(b, 16, 32))
        /\ f.kind = "CloseStream" =>
            /\ Len(b) = 8
            /\ IsLE(f.sid, Slice(b, 0, 8))
        /\ f.kind = "DataHeader" =>
            /\ Len(b) = 24
            /\ IsLE(f.mid, Slice(b, 0, 8))
            /\ IsLE(f.sid, Slice(b, 8, 16))
            /\ IsLE(f.length, Slice(b, 16, 24))

\* an Init frame whose two fields differ in every byte has been decoded
C4_Witness ==
    /\ rx_result.kind = "Init"
    /\ rx_result.pid = Pattern(U128_BITS)
    /\ rx_result.secret = Ones(U128_BITS)
    /\ rx_consumed[1] = 1
    /\ rx_consumed[17] = 255

\* C5: for the participant id and the stream id of the written frame,
\* from_le_bytes(to_le_bytes(id)) = id, and for the first 16 and the first 8
\* bytes b the receiver got, to_le_bytes(from_le_bytes(b)) = b.
C5_LeBytesInverse ==
    LET got == rx_consumed \o rx_buf
    IN  /\ tx_frame.kind = "Init" =>
                Pid_from_le_bytes(Pid_to_le_bytes(tx_frame.pid)) = tx_frame.pid
        /\ tx_frame.kind \in {"OpenStream", "CloseStream", "DataHeader"} =>
                Sid_from_le_bytes(Sid_to_le_bytes(tx_frame.sid)) = tx_frame.sid
        /\ Len(got) >= 16 =>
                Pid_to_le_bytes(Pid_from_le_bytes(Slice(got, 0, 16))) = Slice(got, 0, 16)
        /\ Len(got) >= 8 =>
                Sid_to_le_bytes(Sid_from_le_bytes(Slice(got, 0, 8))) = Slice(got, 0, 8)

\* a stream id whose bytes all differ went to bytes and back
C5_Witness ==
    /\ tx_frame.kind = "CloseStream"
    /\ tx_frame.sid = Pattern(U64_BITS)
    /\ rx_result = tx_frame
    /\ rx_consumed = <<1, 3, 7, 15, 31, 63, 127, 255>>

\* the bit the claim gives each flag
BitOfFlag(name) ==
    CASE name = "ORDERED" -> 0
      [] name = "CONSISTENCY" -> 1
      [] name = "GUARANTEED_DELIVERY" -> 2
      [] name = "COMPRESSED" -> 3
      [] name = "ENCRYPTED" -> 4

RECURSIVE SumOfBits(_)
SumOfBits(names) ==
    IF names = {} THEN 0
    ELSE LET n == CHOOSE x \in names : TRUE
         IN  2 ^ BitOfFlag(n) + SumOfBits(names \ {n})

\* C6: the encoded byte of a Promises value is the sum of 2^bit over the flags
\* put in and not taken out, with ORDERED=0, CONSISTENCY=1, GUARANTEED_DELIVERY=2,
\* COMPRESSED=3, ENCRYPTED=4; so each flag is in the value iff its own bit is set.
C6_PromiseBits ==
    \A s \in Streams :
        /\ Promises_to_le_bytes(promises[s]) = <<SumOfBits(flags_on[s])>>
        /\ \A name \in FlagNames(feature_compression) :
                Promises_contains(promises[s], FlagBits(name)) <=> name \in flags_on[s]

\* one stream holds every flag, the other ENCRYPTED alone
C6_Witness ==
    /\ flags_on[1] = {"ORDERED", "CONSISTENCY", "GUARANTEED_DELIVERY", "COMPRESSED", "ENCRYPTED"}
    /\ promises[1] = 31
    /\ flags_on[2] = {"ENCRYPTED"}
    /\ promises[2] = 16

\* the sizes the claim gives the fixed-size frames
WireSize(kind) ==
    CASE kind = "Handshake" -> 19
      [] kind = "Init" -> 32
      [] kind = "OpenStream" -> 10
      [] kind = "CloseStream" -> 8
      [] kind = "DataHeader" -> 24

\* a step in which the receiver decoded
DecodeStep == <<rx_result, rx_errors, rx_consumed>>' # <<rx_result, rx_errors, rx_consumed>>

\* C7: a decode of a fixed-size frame with fewer bytes buffered than the
\* frame's size returns a decode error and leaves the buffer as it is; a decode
\* with that many bytes buffered, after failed decodes too, returns the frame
\* and takes exactly that many bytes.
C7_ShortBuffer ==
    [][(tx_frame.kind \in FixedKinds /\ DecodeStep) =>
            IF Len(rx_buf) < WireSize(tx_frame.kind)
            THEN /\ rx_result' = DecodeError
                 /\ rx_buf' = rx_buf
                 /\ rx_consumed' = rx_consumed
                 /\ in_flight' = in_flight
            ELSE /\ rx_result'.kind = tx_frame.kind
                 /\ rx_consumed' = SubSeq(rx_buf, 1, WireSize(tx_frame.kind))
                 /\ rx_buf' = SubSeq(rx_buf, WireSize(tx_frame.kind) + 1, Len(rx_buf))]_vars

\* a Handshake was decoded after a decode of it had failed for lack of bytes
C7_Witness ==
    /\ rx_errors
    /\ tx_frame.kind = "Handshake"
    /\ rx_result = tx_frame
    /\ Len(rx_consumed) = 19

\* the bytes of the one Handshake frame the claims call matching: "VELOREN"
\* and the version 0, 5, 0
MatchingHandshake == <<86, 69, 76, 79, 82, 69, 78, 0, 0, 0, 0, 5, 0, 0, 0, 0, 0, 0, 0>>

\* C8: a channel that received a Handshake has not failed with ProtocolMismatch
\* iff the frame's bytes are the token "VELOREN" and the version 0, 5, 0.
C8_HandshakeAccepted ==
    \A c \in Chans :
        ch_handshake[c] # <<>> =>
            (ch_error[c] # "ProtocolMismatch" <=> ch_handshake[c] = MatchingHandshake)

\* one channel rejected a token with one byte changed, the other a version
\* with another major number
C8_Witness ==
    /\ ch_handshake[1] = WithByte(MatchingHandshake, 4, 80)
    /\ ch_error[1] = "ProtocolMismatch"
    /\ ch_handshake[2] = WithByte(MatchingHandshake, 8, 1)
    /\ ch_error[2] = "ProtocolMismatch"

\* C9: a channel that received a Handshake that does not match is Closed with
\* ProtocolMismatch, and has sent nothing but its own Handshake: no Init; it is
\* bound to no participant.
C9_MismatchCloses ==
    \A c \in Chans :
        (ch_handshake[c] # <<>> /\ ch_handshake[c] # MatchingHandshake) =>
            /\ ch_state[c] = "Closed"
            /\ ch_error[c] = "ProtocolMismatch"
            /\ ch_sent[c] = <<"Handshake">>
            /\ ch_init[c] = <<>>
            /\ ch_pid[c] = NoId

\* a channel closed on the version 1, 0, 0 while the other channel is Established
C9_Witness ==
    /\ ch_handshake[1] = WithByte(WithByte(MatchingHandshake, 8, 1), 12, 0)
    /\ ch_state[1] = "Closed"
    /\ ch_state[2] = "Established"

\* the steps in which channel c receives a frame of the kind, whatever the
\* channel does with it
C10_Receives(c, kind) ==
    \/ RecvUnexpected(c, kind)
    \/ /\ kind = "Handshake"
       /\ \E buf \in HandshakeBufs :
                RecvHandshakeMatch(c, buf) \/ RecvHandshakeMismatch(c, buf)
    \/ /\ kind = "Init"
       /\ \E buf \in InitBufs : RecvInit(c, buf) \/ RecvInitAuthFailure(c, buf)

\* C10: (a) a channel that is Established, or has routed a frame, received the
\* matching Handshake and then an Init, whose participant id and secret it is
\* bound to; (b) frames are routed only in steps that find and leave the
\* channel Established; (c) no step changes the participant id or the secret of
\* an Established channel; (d) a Handshake or an Init frame received while
\* Established is logged as a protocol violation and dropped: the channel
\* stays Established, with its participant id, its secret and the known
\* secrets as they were, sends nothing, routes nothing and reports no error.
C10_Established ==
    /\ [][\A c \in Chans, kind \in {"Handshake", "Init"} :
            (ch_state[c] = "Established" /\ C10_Receives(c, kind)) =>
                /\ ch_violations'[c] =
                        [logged |-> ch_violations[c].logged + 1,
                         established |-> ch_violations[c].established + 1]
                /\ ch_state' = ch_state
                /\ ch_pid' = ch_pid
                /\ ch_secret' = ch_secret
                /\ ch_init' = ch_init
                /\ ch_handshake' = ch_handshake
                /\ known_secrets' = known_secrets
                /\ ch_sent' = ch_sent
                /\ ch_routed' = ch_routed
                /\ ch_error' = ch_error]_vars
    /\ [](\A c \in Chans :
            (ch_state[c] \in {"Established", "ShuttingDown"} \/ ch_routed[c] > 0) =>
                /\ ch_handshake[c] = MatchingHandshake
                /\ Len(ch_init[c]) = 32
                /\ ch_sent[c] = <<"Handshake", "Init">>
                /\ IsLE(ch_pid[c], Slice(ch_init[c], 0, 16))
                /\ IsLE(ch_secret[c], Slice(ch_init[c], 16, 32)))
    /\ [][\A c \in Chans :
            /\ ch_routed'[c] # ch_routed[c] =>
                    ch_state[c] = "Established" /\ ch_state'[c] = "Established"
            /\ ch_state[c] = "Established" =>
                    /\ ch_pid'[c] = ch_pid[c]
                    /\ ch_secret'[c] = ch_secret[c]
                    /\ ch_init'[c] = ch_init[c]]_vars

\* an Established channel has routed frames, and a Handshake or an Init it
\* received while Established was logged as a violation
C10_Witness ==
    /\ ch_state[1] = "Established"
    /\ ch_routed[1] = MaxRouted
    /\ ch_violations[1].established > 0
    /\ ch_state[2] = "AwaitingInit"

\* C11: under every interleaving of graceful shutdown, I/O failures and
\* transfers of the two tasks of a channel, at most one lost-channel event is
\* surfaced for the channel, a Closed channel has surfaced exactly one, a
\* channel whose tasks have both finished is Closed with exactly one event,
\* and a Closed channel stays Closed.
C11_TeardownOnce ==
    /\ [](\A c \in Chans :
            /\ td_events[c] <= 1
            /\ td_state[c] = "Closed" => td_events[c] = 1
            /\ (\A t \in Tasks : td_pc[c][t] = "done") =>
                    td_state[c] = "Closed" /\ td_events[c] = 1)
    /\ [][\A c \in Chans :
            /\ td_state[c] = "Closed" => td_state'[c] = "Closed"
            /\ td_events'[c] >= td_events[c]]_vars

\* both tasks of channel 1 came to close it, after traffic, and have finished,
\* while channel 2 is shutting down gracefully
C11_Witness ==
    /\ \A t \in Tasks : td_pc[1][t] = "done"
    /\ td_traffic[1] = MaxTraffic
    /\ td_events[1] = 1
    /\ td_state[2] = "ShuttingDown"
    /\ td_pc[2]["send"] = "close"

\* C12: the participant is torn down only when every one of its channels is
\* Closed and detached, at most once, and it is torn down (or the task that
\* detached the last channel is about to do it) once no live channel is left;
\* closing one channel while the other is live leaves the participant alive.
C12_LastChannel ==
    /\ td_teardowns <= 1
    /\ td_participant = "TornDown" <=> td_teardowns = 1
    /\ td_participant = "TornDown" =>
            td_live = {} /\ \A c \in Chans : td_state[c] = "Closed"
    /\ td_live = {} =>
            \/ td_participant = "TornDown"
            \/ \E c \in Chans, t \in Tasks : td_pc[c][t] = "teardown"
    /\ (\A c \in Chans, t \in Tasks : td_pc[c][t] = "done") =>
            td_participant = "TornDown"

\* channel 1 is closed and detached, with both its tasks finished, while
\* channel 2 is established and carrying traffic: the participant is alive
C12_Witness ==
    /\ td_state[1] = "Closed"
    /\ \A t \in Tasks : td_pc[1][t] = "done"
    /\ td_live = {2}
    /\ td_state[2] = "Established"
    /\ td_traffic[2] > 0
    /\ td_participant = "Alive"

\* the ids of the completed messages, in the order of completion
RECURSIVE CompletedMids(_)
CompletedMids(log) ==
    IF log = <<>> THEN <<>> ELSE <<Head(log).mid>> \o CompletedMids(Tail(log))

\* C13: on stream A, opened with ORDERED, the messages released to the
\* application are messages 1, 2, 3 in that order, whatever the order in which
\* they were completed: the k-th released is message k with its payload, a
\* message held back has an id above the next one due, and the next one due is
\* never held back.
C13_OrderedRelease ==
    SidA \in DOMAIN mx_delivered =>
        LET d == mx_delivered[SidA]
        IN  /\ \A k \in 1..Len(d) : d[k] = [mid |-> U64(k), payload |-> <<10 + k>>]
            /\ SidA \in DOMAIN mx_streams =>
                    /\ \A m \in DOMAIN mx_held[SidA] : Less(U64(Len(d) + 1), m)
                    /\ \A j \in 1..Len(mx_completed) :
                            \/ mx_completed[j].mid = MidB
                            \/ mx_completed[j].mid \in DOMAIN mx_held[SidA]
                            \/ \E k \in 1..Len(d) : d[k].mid = mx_completed[j].mid

\* messages 3, 1, 2 of stream A completed in that order and all three were
\* released
C13_Witness ==
    /\ SelectSeq(CompletedMids(mx_completed), LAMBDA m : m # MidB)
            = <<U64(3), U64(1), U64(2)>>
    /\ SidA \in DOMAIN mx_delivered
    /\ Len(mx_delivered[SidA]) = 3

\* C14: message 7 of stream B, declared three bytes long, arrives as the
\* fragments [0,1) and [1,3) in either order: once both have arrived it has
\* been released exactly once with the payload that was sent, and nothing
\* else is ever released on the stream.
C14_ReassemblyOrder ==
    SidB \in DOMAIN mx_delivered =>
        /\ Len(mx_delivered[SidB]) <= 1
        /\ \A k \in 1..Len(mx_delivered[SidB]) :
                mx_delivered[SidB][k] = [mid |-> MidB, payload |-> MsgB]
        /\ {10, 11} \subseteq mx_arrived => Len(mx_delivered[SidB]) = 1

\* the message was completed by its first fragment, frame 10, so the second
\* fragment had arrived before it; a fragment beyond the length came in between
C14_Witness ==
    /\ \E j \in 1..Len(mx_completed) : mx_completed[j] = [mid |-> MidB, frame |-> 10]
    /\ 12 \in mx_arrived
    /\ mx_delivered[SidB] = <<[mid |-> MidB, payload |-> MsgB]>>

\* C16: a Data frame of a message of stream A that arrives after the
\* CloseStream of stream A was processed changes nothing: no message is
\* released, no error surfaced, no violation logged, no buffer touched, and the
\* channel is still Established.
C16_StaleDataDropped ==
    [][\A i \in {4, 6, 8} :
            (i \notin mx_arrived /\ i \in mx_arrived' /\ 14 \in mx_arrived) =>
                /\ mx_delivered' = mx_delivered
                /\ mx_errors' = mx_errors
                /\ mx_violations' = mx_violations
                /\ mx_chan' = "Established"
                /\ mx_msgs' = mx_msgs
                /\ mx_streams' = mx_streams
                /\ mx_held' = mx_held]_vars

\* stream A was closed with the buffer of message 1 open, and the Data frame
\* of message 1 arrived afterwards: nothing was released on stream A
C16_Witness ==
    /\ {1, 3, 14, 4} \subseteq mx_arrived
    /\ mx_delivered[SidA] = <<>>
    /\ mx_violations = 0
    /\ mx_chan = "Established"

\* C17: a Data frame of message 7 whose range goes beyond the three bytes its
\* DataHeader declared (frame 12: [2,4); frame 13: starting at u64::MAX) is not
\* applied: it is logged as a violation while the message's buffer is open, and
\* it leaves every stream entry, every reassembly buffer, every held message
\* and every released message as they were.
C17_OverlongRejected ==
    [][\A i \in {12, 13} :
            (i \notin mx_arrived /\ i \in mx_arrived') =>
                /\ mx_streams' = mx_streams
                /\ mx_msgs' = mx_msgs
                /\ mx_held' = mx_held
                /\ mx_delivered' = mx_delivered
                /\ mx_completed' = mx_completed
                /\ MidB \in DOMAIN mx_msgs => mx_violations' = mx_violations + 1]_vars

\* both fragments beyond the length were rejected while stream A had message 3
\* held back and a buffer open for message 1, and message 7 was then completed
C17_Witness ==
    /\ {12, 13} \subseteq mx_arrived
    /\ mx_violations = 2
    /\ SidA \in DOMAIN mx_streams
    /\ U64(3) \in DOMAIN mx_held[SidA]
    /\ U64(1) \in DOMAIN mx_msgs
    /\ mx_delivered[SidB] = <<[mid |-> MidB, payload |-> MsgB]>>
    /\ mx_completed[Len(mx_completed)].frame = 11

\* the stream was opened with the GUARANTEED_DELIVERY bit (bit 2) in its
\* promise byte
OpenedGuaranteed == (dl_promises.wire \div 4) % 2 = 1

SentData(k) == gen_data(sn_wire[k].bytes)
SentEnd(k) ==
    IF k = 1 THEN Zero(U64_BITS)
    ELSE WrappingAdd(SentData(k).start, SentData(k).length \o Zero(U64_BITS - U16_BITS))

\* C18: with a maximum fragment payload that fits the u16 length field, the
\* frames emitted for a message are one DataHeader(mid, S, L) and then Data
\* frames of that message id, each starting where the one before ended (the
\* first at 0), each carrying as many payload bytes as its length field says,
\* at least one and at most the maximum; they cover [0, sn_offset), and [0, L)
\* once the message is sent whole.
C18_Fragmentation ==
    (sn_msg # NoFrame /\ sn_max <= U16_MAX) =>
        /\ Len(sn_wire) >= 1
        /\ sn_wire[1].kind = "DataHeader"
        /\ gen_data_header(sn_wire[1].bytes) =
                [kind |-> "DataHeader", mid |-> sn_msg.mid, sid |-> sn_msg.sid,
                 length |-> U64(sn_msg.len)]
        /\ \A k \in 2..Len(sn_wire) :
                /\ sn_wire[k].kind = "Data"
                /\ SentData(k).mid = sn_msg.mid
                /\ SentData(k).start = SentEnd(k - 1)
                /\ SentData(k).length = U16(sn_wire[k].payload)
                /\ sn_wire[k].payload >= 1
                /\ sn_wire[k].payload <= sn_max
                /\ ~AddOverflows(SentData(k).start,
                                 SentData(k).length \o Zero(U64_BITS - U16_BITS))
        /\ SentEnd(Len(sn_wire)) = U64(sn_offset)
        /\ sn_offset <= sn_msg.len
        /\ Len(sn_wire) - 1 = FramesNeeded(sn_offset, sn_max)

\* a message of 2 * 65535 bytes was sent whole with the maximum at 65535: a
\* DataHeader and two Data frames
C18_Witness ==
    /\ sn_msg # NoFrame
    /\ sn_max = U16_MAX
    /\ sn_msg.len = 2 * U16_MAX
    /\ sn_offset = sn_msg.len
    /\ Len(sn_wire) = 3

\* C19: a stream that has a frame ready is eventually written a frame,
\* whatever the other streams submit.
C19_NoStarvation ==
    \A s \in SchedStreams : \A b \in BOOLEAN :
        (sch_queue[s] > 0 /\ sch_served[s] = b) ~> (sch_served[s] # b)

\* the stream of priority 255 was written a frame while the stream of
\* priority 0 had its queue full
C19_Witness ==
    /\ sch_prio = <<0, 255>>
    /\ sch_served[2]
    /\ sch_queue[1] = MaxQueue
    /\ sch_credit[1] = 0

\* the kinds of a frame in the order C21 numbers them
C21_Kinds ==
    <<"Handshake", "Init", "Shutdown", "OpenStream", "CloseStream", "DataHeader", "Data",
      "Raw">>

\* C21: get_int gives every frame the position of its kind in the list
\* Handshake, Init, Shutdown, OpenStream, CloseStream, DataHeader, Data, Raw
\* (distinct numbers 0..7, all below FRAMES_LEN); int_to_string gives the
\* kind's name for a number below 8 and the empty string for 8 and above; and
\* the name of get_int of a frame is the name of the frame's kind
C21_FrameKindNumbers ==
    /\ mt_frame # NoFrame =>
            /\ mt_int \in 0..7
            /\ mt_int < FRAMES_LEN
            /\ C21_Kinds[mt_int + 1] = mt_frame.kind
    /\ (mt_frame # NoFrame /\ mt_name # NoName) => mt_name = mt_frame.kind
    /\ (mt_frame = NoFrame /\ mt_int # NoInt) =>
            mt_name = (IF mt_int < 8 THEN C21_Kinds[mt_int + 1] ELSE "")

\* the name of a Shutdown frame has been asked for and is "Shutdown"
C21_Witness ==
    /\ mt_frame = [kind |-> "Shutdown"]
    /\ mt_int = 2
    /\ mt_name = "Shutdown"

\* the characters Pid::fake(0) .. Pid::fake(7) are shown with
C22_Letters == <<"A", "B", "C", "D", "E", "F", "G", "H">>

\* C22: Pid::fake panics exactly for the offsets of 8 and more; for an offset
\* below 8 the Pid is shown as six copies of the offset's character of the
\* alphabet, and no other offset below 8 gives the same Pid
C22_FakePid ==
    /\ pf_panicked <=> (pf_offset # NoInt /\ pf_offset >= 8)
    /\ (pf_offset # NoInt /\ ~pf_panicked) =>
            /\ \A j \in 0..7 : j # pf_offset => Pid_fake(j) # pf_pid
            /\ pf_text # NoText =>
                    pf_text =
                        [kind |-> "Text", chars |-> [k \in 1..6 |-> C22_Letters[pf_offset + 1]]]

\* Pid::fake(2) has been shown, as "CCCCCC"
C22_Witness ==
    /\ pf_offset = 2
    /\ ~pf_panicked
    /\ pf_text = [kind |-> "Text", chars |-> <<"C", "C", "C", "C", "C", "C">>]

\* letters and digits
C23_Alphanumeric ==
    {"A", "B", "C", "D", "E", "F", "G", "H", "I", "J", "K", "L", "M", "N", "O", "P",
     "Q", "R", "S", "T", "U", "V", "W", "X", "Y", "Z", "a", "b", "c", "d", "e", "f",
     "g", "h", "i", "j", "k", "l", "m", "n", "o", "p", "q", "r", "s", "t", "u", "v",
     "w", "x", "y", "z", "0", "1", "2", "3", "4", "5", "6", "7", "8", "9"}

\* the low-order 36 bits of a Pid
C23_Low36(p) == SubSeq(p, 1, 36)

\* what C23 says of a Pid that has been shown, but for the set its characters are in
C23_Shown(charset) ==
    pf_text # NoText =>
        /\ pf_text.kind = "Text"
        /\ Len(pf_text.chars) = 6
        /\ \A k \in 1..6 : pf_text.chars[k] \in charset
        /\ pf_pid = U128(0) => pf_text.chars[1] = "A"
        /\ pf_pid = U128(29) => pf_text.chars[1] = "d"
        /\ pf_pid = U128(63) => pf_text.chars[1] = "/"
        /\ (pf_prev_pid # NoId /\ C23_Low36(pf_prev_pid) = C23_Low36(pf_pid)) =>
                pf_text = pf_prev_text

\* C23 as stated: every Pid is shown as exactly 6 characters, each of them
\* alphanumeric, computed from the low-order 36 bits only (0 -> 'A', 29 -> 'd',
\* 63 -> '/'), and showing it never fails
C23_RenderAlphanumeric == C23_Shown(C23_Alphanumeric)

\* C23 amended: every Pid is shown as exactly 6 characters, each of them a
\* letter, a digit, '+' or '/', computed from the low-order 36 bits only
\* (0 -> 'A', 29 -> 'd', 63 -> '/'), and showing it never fails
C23_RenderBase64 == C23_Shown(C23_Alphanumeric \cup {"+", "/"})

\* two different Pids that agree on their low 36 bits have been shown, the
\* second with a '+' or a '/' in it
C23_Witness ==
    /\ pf_text # NoText
    /\ pf_prev_pid # NoId
    /\ pf_prev_pid # pf_pid
    /\ C23_Low36(pf_prev_pid) = C23_Low36(pf_pid)
    /\ \E k \in 1..6 : pf_text.chars[k] \in {"+", "/"}

\* C24: get_or_create_entity returns the entity a uid already has and creates
\* one only when there is none, so the client's world holds at most one entity
\* per uid after any sequence of EntityPhysics messages
C24_OneEntityPerUid ==
    \A i, j \in 1..Len(cl_entities) :
        (cl_entities[i].uid # NoComp /\ cl_entities[i].uid = cl_entities[j].uid) => i = j

\* the client is refused with the error: error_state's answer is the first
\* message the step sends to it
Refused(error) ==
    /\ sv_client'.outbox # <<>>
    /\ sv_client'.outbox[1] =
            [kind |-> "StateAnswerErr", error |-> error, state |-> sv_client.client_state]

\* C25: a Register message grants Registered, inserts the Player component and
\* queues the entity for the new-player broadcast only when the login succeeds,
\* the player is valid and the client is Connected; from every other state it
\* is refused as Impossible and inserts nothing; a denied login or an invalid
\* player is refused and ends the handling of the client's messages for the run
C25_Register ==
    [][\A msg \in ClientMsgs : (msg.kind = "Register" /\ SvRecv(msg)) =>
        LET granted ==
                msg.login_ok /\ msg.valid /\ sv_client.client_state = "Connected"
        IN  /\ granted =>
                    /\ sv_client'.client_state = "Registered"
                    /\ sv_ecs'.player # None
                    /\ sv_run'.new_players = Append(sv_run.new_players, "entity")
                    /\ sv_run'.pc = "recv"
            /\ ~granted =>
                    /\ sv_client'.client_state = sv_client.client_state
                    /\ sv_ecs' = sv_ecs
                    /\ sv_run'.new_players = sv_run.new_players
            /\ (msg.login_ok /\ msg.valid /\ sv_client.client_state # "Connected") =>
                    Refused("Impossible")
            /\ ~msg.login_ok => Refused("RegisterDenied") /\ sv_run'.pc = "settle"
            /\ (msg.login_ok /\ ~msg.valid) => Refused("Impossible") /\ sv_run'.pc = "settle"
    ]_vars

\* a Register message has been granted in this run
C25_Witness ==
    /\ sv_run.msg = "Register"
    /\ sv_client.client_state = "Registered"
    /\ sv_ecs.player # None
    /\ sv_run.new_players = <<"entity">>

\* C26: while the client is Connected a Spectate or Character request is
\* refused as Impossible, grants no state, requests no character load and emits
\* no event; an ExitIngame request emits its event only from Spectator or
\* Character
C26_RegisteredFirst ==
    [][\A msg \in ClientMsgs : SvRecv(msg) =>
        /\ (msg.kind \in {"Spectate", "Character"} /\ sv_client.client_state = "Connected") =>
                /\ Refused("Impossible")
                /\ sv_client'.client_state = "Connected"
                /\ sv_run'.loads = <<>>
                /\ sv_run'.events = sv_run.events
        /\ (msg.kind = "ExitIngame" /\ sv_run'.events # sv_run.events) =>
                /\ sv_client.client_state \in {"Spectator", "Character"}
                /\ sv_run'.events = Append(sv_run.events, Ev("ExitIngame"))
    ]_vars

\* a Spectate request of a client that is only connected has been refused
C26_Witness ==
    /\ sv_run.msg = "Spectate"
    /\ sv_client.client_state = "Connected"
    /\ sv_client.outbox # <<>>
    /\ sv_client.outbox[Len(sv_client.outbox)] =
            [kind |-> "StateAnswerErr", error |-> "Impossible", state |-> "Connected"]

\* C27: ControllerInputs, ControlEvent, ControlAction and PlayerPhysics change
\* the entity's controller or its position, velocity and orientation only while
\* the client is a Character (PlayerPhysics only without a ForceUpdate and not
\* dead, a Respawn event only when dead); in Connected, Registered or Spectator
\* they change nothing and are refused as Impossible
C27_OnlyCharactersAct ==
    [][\A msg \in ControlMsgs : SvRecv(msg) =>
        /\ sv_ecs' # sv_ecs =>
                /\ sv_client.client_state = "Character"
                /\ msg.kind = "PlayerPhysics" =>
                        sv_ecs.force_update = FALSE /\ sv_ecs.stats # "Dead"
                /\ (msg.kind = "ControlEvent" /\ msg.event = "Respawn") =>
                        sv_ecs.stats = "Dead"
        /\ sv_client.client_state \in {"Connected", "Registered", "Spectator"} =>
                /\ sv_ecs' = sv_ecs
                /\ sv_client'.client_state = sv_client.client_state
                /\ Refused("Impossible")
    ]_vars

\* a spectator that still has the controller of its character has sent a
\* position and has been refused
C27_Witness ==
    /\ sv_run.msg = "PlayerPhysics"
    /\ sv_client.client_state = "Spectator"
    /\ sv_ecs.controller # None
    /\ sv_ecs.pos = Some(0)
    /\ sv_client.outbox[Len(sv_client.outbox)] =
            [kind |-> "StateAnswerErr", error |-> "Impossible", state |-> "Spectator"]

\* C28: over any sequence of Character messages of the client, across any
\* number of runs, at most one ChatType::Online message is queued for it
C28_LoginMessageOnce == sv_hist.online <= 1

\* a Character request handled after the login message was sent in an earlier
\* run: the character is loaded and no message is queued
C28_Witness ==
    /\ sv_run.msg = "Character"
    /\ sv_run.loads # <<>>
    /\ sv_run.new_chat_msgs = <<>>
    /\ sv_client.login_msg_sent
    /\ sv_hist.online = 1

\* the view distance the Player component holds, None without
StoredVd(ecs) == IF ecs.player = None THEN None ELSE ecs.player[1].view_distance

\* C29: with max_view_distance configured, no view_distance stored by Register
\* or SetViewDistance exceeds it; whenever a request above the maximum is
\* clamped the client is notified with SetViewDistance(max); SetViewDistance
\* from a client that is not a Character changes nothing
C29_ViewDistance ==
    [][\A msg \in ClientMsgs :
        (msg.kind \in {"Register", "SetViewDistance"} /\ SvRecv(msg)) =>
        LET max == sv_settings.max_view_distance
            asked == IF msg.kind = "Register" THEN msg.view_distance ELSE Some(msg.vd)
            stored == StoredVd(sv_ecs')
        IN  /\ (max # None /\ stored # None) => stored[1] <= max[1]
            /\ (max # None /\ asked # None /\ asked[1] > max[1]
                    /\ sv_ecs'.player # sv_ecs.player) =>
                    /\ stored = max
                    /\ sv_client'.outbox[Len(sv_client'.outbox)] =
                            [kind |-> "SetViewDistance", vd |-> max[1]]
            /\ (msg.kind = "SetViewDistance" /\ sv_client.client_state # "Character") =>
                    /\ sv_ecs' = sv_ecs
                    /\ sv_client' = [sv_client EXCEPT !.outbox = <<>>]
    ]_vars

\* a character asked for a view distance above the maximum, holds the maximum
\* and has been told so
C29_Witness ==
    /\ sv_run.msg = "SetViewDistance"
    /\ sv_client.client_state = "Character"
    /\ StoredVd(sv_ecs) = sv_settings.max_view_distance
    /\ sv_settings.max_view_distance # None
    /\ sv_client.outbox # <<>>
    /\ sv_client.outbox[Len(sv_client.outbox)] = [kind |-> "SetViewDistance", vd |-> MaxVd]

\* whether the list holds the element
Holds(list, x) == \E i \in 1..Len(list) : list[i] = x

\* the rules of C30: what settling the client at the end of a run does
C30_Rules ==
    [][SvSettle =>
            LET since == sv_time - sv_client.last_ping
                first == IF sv_run.cnt > 0 THEN "alive"
                         ELSE IF since > ClientTimeout THEN "timeout"
                         ELSE IF sv_run.network_err THEN "network_error"
                         ELSE IF 2 * since > ClientTimeout THEN "ping"
                         ELSE "none"
            IN  /\ sv_client'.last_ping =
                        (IF first = "alive" THEN sv_time ELSE sv_client.last_ping)
                /\ sv_run'.disconnected =
                        (IF first \in {"timeout", "network_error"} THEN first
                         ELSE sv_run.disconnected)
                /\ Len(sv_run'.events) - Len(sv_run.events) =
                        (IF first \in {"timeout", "network_error"} THEN 1 ELSE 0)
                            + Len(sv_run.new_chat_msgs)
                /\ first \in {"timeout", "network_error"} =>
                        sv_run'.events[Len(sv_run.events) + 1] = Ev("ClientDisconnect")
                /\ Holds(sv_client'.outbox, [kind |-> "Ping"]) <=> first = "ping"
       ]_vars

\* C30 as stated: at the end of a run the client is settled by the first rule
\* that applies: with a message received in the run last_ping becomes the
\* current time and the client is not disconnected by the rule; else past
\* client_timeout since last_ping it is disconnected as timed out; else if
\* receiving failed it is disconnected as a network error; else past half the
\* timeout it is sent a Ping.  Hence a client timed out was pinged since its
\* last message, and a client that stays silent is eventually disconnected.
C30_Original ==
    /\ C30_Rules
    /\ [](sv_run.disconnected = "timeout" => sv_hist.pinged)
    /\ (sv_silent ~> sv_gone)

\* C30 (amended): the client is settled by the first rule that applies, as
\* stated; a client timed out was pinged since its last message when no two
\* successive runs since that message were more than half of client_timeout
\* apart; and a client that stays silent is eventually disconnected.
C30_PingTimeout ==
    /\ C30_Rules
    /\ []((sv_run.disconnected = "timeout" /\ ~sv_hist.late) => sv_hist.pinged)
    /\ (sv_silent ~> sv_gone)

\* a client that went silent has been pinged and then timed out
C30_Witness ==
    /\ sv_silent
    /\ sv_hist.pinged
    /\ ~sv_hist.late
    /\ sv_run.disconnected = "timeout"
    /\ sv_run.pc = "events"

RECURSIVE C31_Expected(_)
\* the events the queued chat messages are to become, in their order
C31_Expected(chat) ==
    IF chat = <<>> THEN <<>>
    ELSE LET m == Head(chat)
             text == [chat_type |-> m.chat_type, message |-> m.message]
             slash == Len(m.message) >= 1 /\ m.message[1] = "/"
             one == IF slash
                    THEN IF m.entity # None /\ Len(m.message) > 1
                         THEN <<[kind |-> "ChatCmd", entity |-> m.entity[1],
                                 argv |-> SubSeq(m.message, 2, Len(m.message))]>>
                         ELSE <<>>
                    ELSE <<[kind |-> "Chat", msg |-> text]>>
         IN  one \o C31_Expected(Tail(chat))

\* the events a list of events holds from position n on
C31_From(events, n) == SubSeq(events, n, Len(events))

\* C31: every chat message queued in a run becomes at most one server event:
\* one starting with "/" becomes ChatCmd(entity, text after the slash) when it
\* has a sending entity and more than one character and is dropped otherwise,
\* never a Chat event; any other becomes exactly one Chat event.  A ChatMsg
\* that is too long, or from a client in state Connected, queues nothing.
C31_ChatEvents ==
    /\ [][SvSettle =>
            LET kept == Len(sv_run'.events) - Len(C31_Expected(sv_run.new_chat_msgs))
            IN  /\ kept >= Len(sv_run.events)
                /\ C31_From(sv_run'.events, kept + 1) = C31_Expected(sv_run.new_chat_msgs)
                /\ \A i \in (Len(sv_run.events) + 1)..kept :
                        sv_run'.events[i].kind \notin {"Chat", "ChatCmd"}
       ]_vars
    /\ [][\A msg \in ChatMsgs : SvRecv(msg) =>
            /\ (Len(msg.message) > MaxChatBytes \/ sv_client.client_state = "Connected") =>
                    sv_run'.new_chat_msgs = sv_run.new_chat_msgs
            /\ Len(sv_run'.new_chat_msgs) <= Len(sv_run.new_chat_msgs) + 1
            /\ sv_run'.events = sv_run.events
       ]_vars

\* a run in which a command and a lone slash were queued has emitted the
\* command alone
C31_Witness ==
    /\ sv_run.pc = "events"
    /\ Len(sv_run.new_chat_msgs) = 2
    /\ sv_run.new_chat_msgs[1].message = <<"/", "w">>
    /\ sv_run.new_chat_msgs[2].message = <<"/">>
    /\ sv_run.events = <<[kind |-> "ChatCmd", entity |-> ClientEntity, argv |-> <<"w">>]>>

\* the cost of an ability that has one
C32_Cost(ability) ==
    CASE ability = "Roll" -> 200 [] ability = "DashMelee" -> 300
      [] ability = "CastFireball" -> 500

\* C32: requirements_paid returns true and takes the ability's cost (Roll
\* 200, DashMelee 300, CastFireball 500) exactly when the ability's physical
\* preconditions hold (Roll: on ground, not in fluid, humanoid; DashMelee and
\* CastFireball: not in fluid) and the energy suffices; when it returns false
\* the energy is unchanged; every other ability returns true at no cost
C32_RequirementsPaid ==
    ab_call # NoCall =>
        LET a == ab_call.ability
            d == ab_call.data
            physical == IF a = "Roll" THEN d.on_ground /\ ~d.in_fluid /\ d.is_humanoid
                        ELSE ~d.in_fluid
        IN  IF a \in {"Roll", "DashMelee", "CastFireball"}
            THEN /\ ab_call.returned <=> (physical /\ ab_call.before >= C32_Cost(a))
                 /\ ab_energy.current =
                        ab_call.before - (IF ab_call.returned THEN C32_Cost(a) ELSE 0)
            ELSE ab_call.returned /\ ab_energy.current = ab_call.before

\* a dash in a fluid by a character that could have paid for it: refused, and
\* the energy is still there
C32_Witness ==
    /\ ab_call # NoCall
    /\ ab_call.ability = "DashMelee"
    /\ ab_call.data.in_fluid
    /\ ab_call.before >= 300
    /\ ~ab_call.returned
    /\ ab_energy.current = ab_call.before

\* C33: in a combo attack neither configured maximum is exceeded, for any
\* combo count: the damage of every hit attempt is at most the stage's
\* max_damage, the energy granted for a hit that landed is at most
\* max_energy_gain, and energy is granted only when the attack the call saw
\* was applied with hit_count > 0
C33_MaximaKept ==
    /\ []((cm_last.branch = "Hit attempt" /\ cm_attacking # <<>>) =>
            /\ 0 - cm_attacking[1].base_healthchange <=
                    cm_data.stage_data[cm_last.stage].max_damage
            /\ 0 - cm_attacking[1].base_healthchange >= 0)
    /\ []((cm_last.branch \notin {"None", "Panic"} /\ cm_last.granted # NoInt) =>
            /\ cm_last.granted <= cm_data.max_energy_gain
            /\ cm_last.granted >= 0
            /\ cm_last.seen # <<>>
            /\ cm_last.seen[1].applied
            /\ cm_last.seen[1].hit_count > 0)
    /\ [][cm_energy'.current # cm_energy.current =>
            /\ cm_attacking # <<>>
            /\ cm_attacking[1].applied /\ cm_attacking[1].hit_count > 0
            /\ cm_energy'.current - cm_energy.current <= cm_data.max_energy_gain]_vars

\* the second stage's hit attempt after three strikes, whose scaled damage is
\* above the stage's maximum: the attack carries the maximum
C33_Witness ==
    /\ cm_last.branch = "Hit attempt"
    /\ cm_last.combo = 3
    /\ cm_last.stage = 2
    /\ cm_attacking # <<>>
    /\ cm_attacking[1].base_healthchange = 0 - cm_data.stage_data[2].max_damage

\* the damage min(max_damage, base_damage + c * damage_increase), for
\* base_damage <= max_damage
C34_Scaled(st, c) ==
    IF st.damage_increase > 0 /\ c > (st.max_damage - st.base_damage) \div st.damage_increase
    THEN st.max_damage
    ELSE st.base_damage + c * st.damage_increase

\* C34: the damage of a hit attempt made with combo count c is base_damage +
\* c * damage_increase of the current stage, capped at max_damage, so each
\* additional consecutive strike raises the damage by damage_increase until
\* the cap is reached
C34_DamagePerStrike ==
    (cm_last.branch = "Hit attempt" /\ cm_attacking # <<>>) =>
        0 - cm_attacking[1].base_healthchange =
            C34_Scaled(cm_data.stage_data[cm_last.stage], cm_last.combo)

\* bit j (0 the least significant) of the byte b
C35_BitOf(b, j) == (b \div (2 ^ j)) % 2

\* the bit positions of the promise flags of the build
C35_Defined == IF feature_compression THEN {0, 1, 2, 3, 4} ELSE {0, 1, 2, 4}

\* C35: gen_open_stream fails on no 10 bytes: it reads the stream id from
\* bytes 0..8 little-endian, the priority from byte 8 and the promises from
\* byte 9, dropping every bit of byte 9 that is no defined promise flag, so
\* the decoded promises re-encode to byte 9 with the undefined bits cleared
C35_OpenStreamTotal ==
    rx_consumed # <<>> =>
        /\ rx_result.kind = "OpenStream"
        /\ Len(rx_result.sid) = 64
        /\ \A k \in 0..7 : \A j \in 0..7 :
                rx_result.sid[8 * k + j + 1] = C35_BitOf(rx_consumed[k + 1], j)
        /\ rx_result.prio = rx_consumed[9]
        /\ rx_result.promises \in 0..255
        /\ \A j \in 0..7 :
                C35_BitOf(rx_result.promises, j) =
                    (IF j \in C35_Defined THEN C35_BitOf(rx_consumed[10], j) ELSE 0)
        /\ Promises_to_le_bytes(rx_result.promises) = <<rx_result.promises>>

\* a buffer whose promise byte has every bit set, in a build without
\* compression: the promises have the four flags of the build
C35_Witness ==
    /\ ~feature_compression
    /\ rx_consumed = <<1, 2, 3, 4, 5, 6, 7, 8, 7, 255>>
    /\ rx_result.promises = 23
    /\ rx_result.prio = 7

\* the half of the id space a peer was assigned: the initiator's ids are
\* below STREAM_ID_OFFSET2, the responder's from STREAM_ID_OFFSET2 up
InHalf(p, sid) ==
    IF p = 1 THEN Less(sid, STREAM_ID_OFFSET2) ELSE LessEq(STREAM_ID_OFFSET2, sid)

\* C20: every step that opens a stream leaves the peer's counter strictly
\* larger than it was and inside the half of the id space the peer was
\* assigned, however many streams the peer has opened.
C20_CounterInHalf ==
    [][\A p \in Peers :
            steps'[p] # steps[p] =>
                /\ Less(stream_ids[p], stream_ids'[p])
                /\ InHalf(p, stream_ids'[p])]_vars

====
